---- MODULE Spec2Model ----
(***************************************************************************)
(* Symbolic instruction-flow engine of coeus_analysis                      *)
(* (analysis/instruction_flow.rs): the Value algebra, the per-branch step  *)
(* of InstructionFlow::next_instruction, the end-of-tick taint drain and   *)
(* fork admission, reset, and the query loops.                             *)
(***************************************************************************)
EXTENDS Integers, Sequences, FiniteSets, TLC

(***************************************************************************)
(* Bounds of the exploration.                                              *)
(***************************************************************************)
MaxResets == 1
MaxStart == 3
MaxQueries == 1
MaxFinds == 2
MaxAbs == 4
MaxShift == 3

(***************************************************************************)
(* Program constants.                                                      *)
(***************************************************************************)
MAX_ITERATIONS == 1000
FORK_CAP == 1000
NEW_BRANCH_CAP == 10
EXPLOSION_BRANCHES == 300
EXPLOSION_ITERATIONS == 150

(***************************************************************************)
(* Option<T>.                                                              *)
(***************************************************************************)
None == [some |-> FALSE]
Some(x) == [some |-> TRUE, v |-> x]

(***************************************************************************)
(* enum Value.  Char carries its code point, Bytes a sequence of bytes.    *)
(***************************************************************************)
VString(s) == [tag |-> "String", s |-> s]
Number(n) == [tag |-> "Number", n |-> n]
Boolean(b) == [tag |-> "Boolean", b |-> b]
Char(c) == [tag |-> "Char", c |-> c]
Byte(n) == [tag |-> "Byte", n |-> n]
Bytes(bs) == [tag |-> "Bytes", bytes |-> bs]
Variable(li) == [tag |-> "Variable", li |-> li]
Unknown(ty) == [tag |-> "Unknown", ty |-> ty]
Object(ty) == [tag |-> "Object", ty |-> ty]
Invalid == [tag |-> "Invalid"]
Empty == [tag |-> "Empty"]

(***************************************************************************)
(* enum LastInstruction.  The Arc<Class>/Arc<Method> handles of a          *)
(* FunctionCall are carried as the index of the method in the DEX table;   *)
(* the function pointer of a BinaryOperation as the name of its operator.  *)
(***************************************************************************)
FunctionCall(name, signature, class_name, method, args, result) ==
    [kind |-> "FunctionCall", name |-> name, signature |-> signature,
     class_name |-> class_name, method |-> method, args |-> args,
     result |-> result]
ReadStaticField(class_name, field, name) ==
    [kind |-> "ReadStaticField", class_name |-> class_name, field |-> field,
     name |-> name]
StoreStaticField(class_name, field, name, arg) ==
    [kind |-> "StoreStaticField", class_name |-> class_name, field |-> field,
     name |-> name, arg |-> arg]
BinaryOperation(left, right, operation) ==
    [kind |-> "BinaryOperation", left |-> left, right |-> right,
     operation |-> operation]

\* Value::try_get_number
try_get_number(v) ==
    CASE v.tag = "Number" -> Some(v.n)
      [] v.tag = "Byte" -> Some(v.n)
      [] v.tag = "Char" -> Some(v.c)
      [] v.tag = "Boolean" -> Some(IF v.b THEN 1 ELSE 0)
      [] OTHER -> None

\* Value::is_constant
is_constant(v) == v.tag \notin {"Variable", "Unknown", "Object", "Invalid", "Empty"}

(***************************************************************************)
(* Two's-complement bitwise operators on integers.                         *)
(***************************************************************************)
RECURSIVE XorBits(_, _)
XorBits(a, b) ==
    IF a \in {0, -1} /\ b \in {0, -1}
    THEN (IF a = b THEN 0 ELSE -1)
    ELSE 2 * XorBits(a \div 2, b \div 2) + (IF (a % 2) = (b % 2) THEN 0 ELSE 1)

\* the bits of a & b
RECURSIVE AndBits(_, _)
AndBits(a, b) ==
    IF a \in {0, -1} /\ b \in {0, -1}
    THEN (IF a = -1 /\ b = -1 THEN -1 ELSE 0)
    ELSE 2 * AndBits(a \div 2, b \div 2) + (IF (a % 2) = 1 /\ (b % 2) = 1 THEN 1 ELSE 0)

\* faulty variant of BitXor: the numbers are and-ed
BitXorAsAnd(lhs, rhs) ==
    LET l == try_get_number(lhs)
        r == try_get_number(rhs)
    IN  IF ~l.some
        THEN IF lhs.tag = "Variable"
             THEN Variable(BinaryOperation(lhs, rhs, "xor"))
             ELSE Invalid
        ELSE IF ~r.some
             THEN Invalid
             ELSE Number(AndBits(l.v, r.v))

\* impl BitXor for &Value
BitXor(lhs, rhs) ==
    LET l == try_get_number(lhs)
        r == try_get_number(rhs)
    IN  IF ~l.some
        THEN IF lhs.tag = "Variable"
             THEN Variable(BinaryOperation(lhs, rhs, "xor"))
             ELSE Invalid
        ELSE IF ~r.some
             THEN Invalid
             ELSE Number(XorBits(l.v, r.v))

(***************************************************************************)
(* The other operator impls of &Value.  An operator is named by the tag    *)
(* that also stands for its closure in a BinaryOperation.  Arithmetic is   *)
(* that of i128 on operands small enough that no result leaves the range   *)
(* and every shift amount lies in 0..127.                                  *)
(***************************************************************************)
Operators ==
    {"xor", "and", "or", "rem", "add", "sub", "mul", "div", "shl", "shr", "ushr"}

\* i128 `/`: the quotient is truncated towards zero
TruncDiv(a, b) ==
    LET abs(x) == IF x < 0 THEN -x ELSE x
        q == abs(a) \div abs(b)
    IN  IF (a < 0) = (b < 0) THEN q ELSE -q

\* i128 `%`: the remainder has the sign of the dividend
TruncRem(a, b) == a - b * TruncDiv(a, b)

\* i128 `>>`: the arithmetic shift, floor(a / 2^b); 2^b exceeds every
\* operand used here once b > 30
ShrBits(a, b) ==
    IF b > 30 THEN (IF a < 0 THEN -1 ELSE 0) ELSE a \div (2 ^ b)

\* ((lhs as u128) >> rhs) as i128: a negative lhs stands for 2^128 + lhs
UShrBits(a, b) ==
    IF a >= 0 \/ b = 0 THEN ShrBits(a, b)
    ELSE 2 ^ (128 - b) + ShrBits(a, b)

\* the Number(..) expression that ends the impl of each operator for
\* (&Value, &Value); the one of Div multiplies
Fold(op, a, b) ==
    CASE op = "xor" -> XorBits(a, b)
      [] op = "and" -> AndBits(a, b)
      [] op = "or" -> a + b - AndBits(a, b)
      [] op = "rem" -> TruncRem(a, b)
      [] op = "add" -> a + b
      [] op = "sub" -> a - b
      [] op = "mul" -> a * b
      [] op = "div" -> a * b
      [] op = "shl" -> a * (2 ^ b)
      [] op = "shr" -> ShrBits(a, b)
      [] op = "ushr" -> UShrBits(a, b)

\* impl BitXor / BitAnd / BitOr / Rem / Add / Sub / Mul / Div / Shl / Shr /
\* UShr for &Value.  The second check defers on a Variable rhs, except that
\* BitXor has no such branch and Shr and UShr test self again.
ValueOp(op, lhs, rhs) ==
    LET l == try_get_number(lhs)
        r == try_get_number(rhs)
        deferred == Variable(BinaryOperation(lhs, rhs, op))
        tested == IF op \in {"shr", "ushr"} THEN lhs ELSE rhs
    IN  IF op = "xor" THEN BitXor(lhs, rhs)
        ELSE IF ~l.some
        THEN IF lhs.tag = "Variable" THEN deferred ELSE Invalid
        ELSE IF ~r.some
        THEN IF tested.tag = "Variable" THEN deferred ELSE Invalid
        ELSE IF op = "rem" /\ r.v = 0 THEN Invalid
        ELSE Number(Fold(op, l.v, r.v))

\* impl BitXor<i128> / ... / UShr<i128> for &Value: the right operand is an
\* integer literal.  Div<i128> divides but stores the closure of Mul;
\* neither Div<i128> nor Rem<i128> looks at a zero divisor, so the thread
\* panics on it (attempt to divide by zero).
ValueOpLit(op, lhs, rhs) ==
    LET l == try_get_number(lhs)
        closure == IF op = "div" THEN "mul" ELSE op
    IN  IF ~l.some
        THEN IF lhs.tag = "Variable"
             THEN Variable(BinaryOperation(lhs, Number(rhs), closure))
             ELSE Invalid
        ELSE IF op \in {"div", "rem"} /\ rhs = 0 THEN [tag |-> "Panic"]
        ELSE IF op = "div" THEN Number(TruncDiv(l.v, rhs))
        ELSE Number(Fold(op, l.v, rhs))

(***************************************************************************)
(* The emulator as LastInstruction::execute sees it.  A VM is described by *)
(* what it answers: lookup says whether lookup_method finds the method     *)
(* with code ("code"), without code ("native") or not at all ("missing"),  *)
(* raises whether the started or invoked method ends in an exception,      *)
(* heap whether new_instance succeeds, ret what get_return_object yields   *)
(* afterwards.                                                             *)
(***************************************************************************)
\* the emulators of the exploration; ret is the Option<vm::Value> left by
\* the call: Int, Short, Byte, Array or Object (with the text its Display
\* gives)
VMs ==
    [lookup : {"code", "native", "missing"}, raises : BOOLEAN, heap : BOOLEAN,
     ret : {None,
            Some([vt |-> "Int", i |-> -3]), Some([vt |-> "Int", i |-> 0]),
            Some([vt |-> "Int", i |-> 1]), Some([vt |-> "Int", i |-> 2]),
            Some([vt |-> "Short", i |-> 2]), Some([vt |-> "Byte", i |-> 3]),
            Some([vt |-> "Array", bytes |-> <<1, 2>>]),
            Some([vt |-> "Object", class_name |-> "Ljava/lang/String;",
                  text |-> "secret"]),
            Some([vt |-> "Object", class_name |-> "Lcom/app/Foo;",
                  text |-> "Foo@1"])}]

\* Result<Value, VMException> of a concretization, with what it did on the
\* VM: calls counts the methods started or invoked (those of nested
\* instructions included), own names the entry point this instruction
\* called itself, vm_args are the registers it marshalled, stored is what it
\* wrote to the result field of a FunctionCall
Outcome(ok, v, calls, own, vm_args, stored) ==
    [ok |-> ok, v |-> v, calls |-> calls, own |-> own, vm_args |-> vm_args,
     stored |-> stored]

\* the match that turns an evaluated argument into a Register
Marshal(arg, vm) ==
    LET instance(ty) == IF vm.heap THEN [reg |-> "Object", ty |-> ty]
                        ELSE [reg |-> "Null"]
    IN  CASE arg.tag = "String" -> instance("Ljava/lang/String;")
          [] arg.tag = "Boolean" -> [reg |-> "Literal", n |-> IF arg.b THEN 1 ELSE 0]
          [] arg.tag = "Number" -> [reg |-> "Literal", n |-> arg.n]
          [] arg.tag = "Char" -> [reg |-> "Literal", n |-> arg.c]
          [] arg.tag = "Byte" -> [reg |-> "Literal", n |-> arg.n]
          [] arg.tag = "Bytes" -> instance("[B")
          [] arg.tag \in {"Unknown", "Object"} -> instance(arg.ty)
          [] arg.tag = "Invalid" -> [reg |-> "Null"]
          [] arg.tag = "Empty" -> [reg |-> "Empty"]

\* the map over vm.get_return_object()
ReturnValue(ret, result) ==
    IF ~ret.some THEN Invalid
    ELSE CASE ret.v.vt = "Array" -> Bytes(ret.v.bytes)
           [] ret.v.vt = "Object" ->
                IF ret.v.class_name = "Ljava/lang/String;"
                THEN VString(ret.v.text) ELSE Object(ret.v.class_name)
           [] ret.v.vt = "Int" ->
                IF result.some /\ result.v.tag = "Object" /\ result.v.ty = "Z"
                THEN Boolean(ret.v.i = 1) ELSE Number(ret.v.i)
           [] ret.v.vt = "Short" -> Number(ret.v.i)
           [] ret.v.vt = "Byte" -> Byte(ret.v.i)

\* faulty variant of evaluated_args: Unknown and Empty are let through
evaluated_args_unfiltered(evals) == SelectSeq(evals, LAMBDA e : e.ok)

\* the arguments that pass the filter after evaluation
evaluated_args(evals) ==
    SelectSeq(evals, LAMBDA e : e.ok /\ e.v.tag \notin {"Unknown", "Empty"})

RECURSIVE SumCalls(_)
SumCalls(evals) ==
    IF evals = << >> THEN 0 ELSE Head(evals).calls + SumCalls(Tail(evals))

\* LastInstruction::execute and Value::try_get_value
RECURSIVE execute(_, _)
RECURSIVE try_get_value(_, _)
try_get_value(v, vm) ==
    IF v.tag = "Variable" THEN execute(v.li, vm)
    ELSE Outcome(TRUE, v, 0, "none", << >>, None)

execute(li, vm) ==
    CASE li.kind = "FunctionCall" ->
           LET evals == [i \in DOMAIN li.args |-> try_get_value(li.args[i], vm)]
               nested == SumCalls(evals)
               kept == evaluated_args(evals)
               vm_args == [i \in DOMAIN kept |-> Marshal(kept[i].v, vm)]
               own == CASE vm.lookup = "code" -> "start"
                        [] vm.lookup = "native" -> "invoke_runtime"
                        [] OTHER -> "invoke_runtime_with_method"
               r == ReturnValue(vm.ret, li.result)
           IN  IF Len(kept) # Len(li.args)
               THEN Outcome(FALSE, "LinkerError", nested, "none", << >>, li.result)
               ELSE IF vm.raises
               THEN Outcome(FALSE, "VMException", nested + 1, own, vm_args, li.result)
               ELSE Outcome(TRUE, r, nested + 1, own, vm_args, Some(r))
      [] li.kind = "BinaryOperation" ->
           LET left == try_get_value(li.left, vm)
               right == try_get_value(li.right, vm)
           IN  IF ~left.ok
               THEN Outcome(FALSE, left.v, left.calls, "none", << >>, None)
               ELSE IF ~right.ok
               THEN Outcome(FALSE, right.v, left.calls + right.calls, "none",
                            << >>, None)
               ELSE Outcome(TRUE, ValueOp(li.operation, left.v, right.v),
                            left.calls + right.calls, "none", << >>, None)
      [] OTHER -> Outcome(FALSE, "LinkerError", 0, "none", << >>, None)

\* the instruction execute(&mut self, vm) leaves behind: every argument that
\* is a Variable has been executed in place, and a FunctionCall that
\* returned Ok holds its lifted value in result; a BinaryOperation whose
\* left operand failed has not touched its right operand
RECURSIVE after_execute(_, _)
after_execute(li, vm) ==
    LET after(v) == IF v.tag = "Variable"
                    THEN Variable(after_execute(v.li, vm)) ELSE v
    IN  CASE li.kind = "FunctionCall" ->
               [li EXCEPT !.args = [i \in DOMAIN li.args |-> after(li.args[i])],
                          !.result = execute(li, vm).stored]
          [] li.kind = "BinaryOperation" ->
               IF try_get_value(li.left, vm).ok
               THEN [li EXCEPT !.left = after(li.left), !.right = after(li.right)]
               ELSE [li EXCEPT !.left = after(li.left)]
          [] OTHER -> li

(***************************************************************************)
(* The read-only DEX symbol view: method table (with the proto's           *)
(* to_string and get_return_type), string table and type names.  Indices   *)
(* are 0-based as in the DEX file.                                         *)
(***************************************************************************)
DexMethods ==
    << [method_name |-> "length", class_name |-> "Ljava/lang/String;",
        sig |-> "()I", return_type |-> "I"],
       [method_name |-> "decrypt", class_name |-> "Lcom/app/Crypto;",
        sig |-> "(Ljava/lang/String;)Ljava/lang/String;",
        return_type |-> "Ljava/lang/String;"],
       [method_name |-> "log", class_name |-> "Lcom/app/Log;",
        sig |-> "(I)V", return_type |-> "V"],
       [method_name |-> "call", class_name |-> "Lcom/app/Api;",
        sig |-> "()I", return_type |-> "I"],
       [method_name |-> "call", class_name |-> "Lcom/app/ApiImpl;",
        sig |-> "()I", return_type |-> "I"],
       [method_name |-> "run", class_name |-> "Lcom/app/Task;",
        sig |-> "()V", return_type |-> "V"],
       [method_name |-> "close", class_name |-> "Lcom/app/Res;",
        sig |-> "()I", return_type |-> "I"],
       [method_name |-> "open", class_name |-> "Lcom/app/ResBase;",
        sig |-> "()V", return_type |-> "V"] >>
DexStrings == << "secret" >>
DexTypes == << "Lcom/app/Foo;" >>
\* dex.fields: the static field Cfg.KEY
DexFields == << [class_name |-> "Lcom/app/Cfg;", name |-> "KEY"] >>

\* The classes of the DEX file that implement an interface, each with the
\* methods it has code for (Class::codes, as indices into DexMethods).
\* Api has one implementor that defines call; Task has two implementors;
\* Res has one implementor that inherits close and defines only open.
DexImplementations ==
    [c \in {"Lcom/app/Api;", "Lcom/app/Task;", "Lcom/app/Res;"} |->
       CASE c = "Lcom/app/Api;" ->
              << [class_name |-> "Lcom/app/ApiImpl;", codes |-> <<4>>] >>
         [] c = "Lcom/app/Task;" ->
              << [class_name |-> "Lcom/app/TaskA;", codes |-> << >>],
                 [class_name |-> "Lcom/app/TaskB;", codes |-> << >>] >>
         [] c = "Lcom/app/Res;" ->
              << [class_name |-> "Lcom/app/ResBase;", codes |-> <<7>>] >>]

\* DexFile::get_implementations_for
get_implementations_for(class_name) ==
    IF class_name \in DOMAIN DexImplementations
    THEN DexImplementations[class_name] ELSE << >>

\* DexFile::get_string
get_string(idx) ==
    IF idx + 1 \in DOMAIN DexStrings THEN Some(DexStrings[idx + 1]) ELSE None
\* DexFile::get_type_name
get_type_name(idx) ==
    IF idx + 1 \in DOMAIN DexTypes THEN Some(DexTypes[idx + 1]) ELSE None

(***************************************************************************)
(* enum Instruction (the variants the engine dispatches on) and the        *)
(* (InstructionSize, Instruction) pair of the method map.  Sizes are in    *)
(* bytes.                                                                  *)
(***************************************************************************)
I(size, ins) == [size |-> size, ins |-> ins]
Nop == [op |-> "Nop"]
Goto8(offset) == [op |-> "Goto8", offset |-> offset]
Goto16(offset) == [op |-> "Goto16", offset |-> offset]
Goto32(offset) == [op |-> "Goto32", offset |-> offset]
CheckCast == [op |-> "CheckCast"]
Test(test, left, right, offset) ==
    [op |-> "Test", test |-> test, left |-> left, right |-> right,
     offset |-> offset]
TestZero(test, left, offset) ==
    [op |-> "TestZero", test |-> test, left |-> left, offset |-> offset]
Switch(reg, table_offset) ==
    [op |-> "Switch", reg |-> reg, table_offset |-> table_offset]
SwitchData(targets) == [op |-> "SwitchData", targets |-> targets]
XorInt(left, right) == [op |-> "XorInt", left |-> left, right |-> right]
XorIntDst(dst, left, right) ==
    [op |-> "XorIntDst", dst |-> dst, left |-> left, right |-> right]
RemInt(left, right) == [op |-> "RemInt", left |-> left, right |-> right]
DivInt(left, right) == [op |-> "DivInt", left |-> left, right |-> right]
InvokeVirtual(method, regs) ==
    [op |-> "InvokeVirtual", method |-> method, regs |-> regs]
InvokeStatic(method, regs) ==
    [op |-> "InvokeStatic", method |-> method, regs |-> regs]
InvokeInterface(method, regs) ==
    [op |-> "InvokeInterface", method |-> method, regs |-> regs]
\* invoke-static/range {v(first) .. v(first + count - 1)}
InvokeStaticRange(count, method, first) ==
    [op |-> "InvokeStaticRange", count |-> count, method |-> method,
     first |-> first]
ConstLit4(reg, val) == [op |-> "ConstLit4", reg |-> reg, val |-> val]
ConstLit16(reg, val) == [op |-> "ConstLit16", reg |-> reg, val |-> val]
ConstLit32(reg, val) == [op |-> "ConstLit32", reg |-> reg, val |-> val]
ConstString(reg, str_idx) ==
    [op |-> "ConstString", reg |-> reg, str_idx |-> str_idx]
NewInstance(reg, ty) == [op |-> "NewInstance", reg |-> reg, ty |-> ty]
Move(dst, src) == [op |-> "Move", dst |-> dst, src |-> src]
StaticGet(dst, field) == [op |-> "StaticGet", dst |-> dst, field |-> field]
MoveResult(reg) == [op |-> "MoveResult", reg |-> reg]
MoveResultWide(reg) == [op |-> "MoveResultWide", reg |-> reg]
MoveResultObject(reg) == [op |-> "MoveResultObject", reg |-> reg]
ReturnVoid == [op |-> "ReturnVoid"]
Return(reg) == [op |-> "Return", reg |-> reg]
Throw(reg) == [op |-> "Throw", reg |-> reg]
NotImpl == [op |-> "NotImpl"]

(***************************************************************************)
(* Decoded method bodies handed to InstructionFlow::new: register count    *)
(* and the offset -> (size, instruction) map.                              *)
(***************************************************************************)
\* const/16 v0,0x2A; const/16 v1,0x15; xor-int v0,v1; return v0
XorFoldMethod ==
    [register_size |-> 2,
     insns |-> (0 :> I(4, ConstLit16(0, 42))) @@ (2 :> I(4, ConstLit16(1, 21)))
            @@ (4 :> I(2, XorInt(0, 1))) @@ (5 :> I(2, Return(0)))]

\* const/4 v0,0; if-nez v1,+5; const/4 v2,1; return v2; (6:) const/4 v2,2; return v2
SymForkMethod ==
    [register_size |-> 3,
     insns |-> (0 :> I(2, ConstLit4(0, 0)))
            @@ (1 :> I(4, TestZero("NotEqual", 1, 5)))
            @@ (3 :> I(2, ConstLit4(2, 1))) @@ (4 :> I(2, Return(2)))
            @@ (6 :> I(2, ConstLit4(2, 2))) @@ (7 :> I(2, Return(2)))]

\* a loop whose header if-eqz v1 exits on the taken edge; the body ends in a
\* goto back to the header
LoopMethod ==
    [register_size |-> 2,
     insns |-> (0 :> I(2, ConstLit4(0, 0)))
            @@ (1 :> I(4, TestZero("Equal", 1, 4)))
            @@ (3 :> I(2, Nop)) @@ (4 :> I(2, Goto8(-3)))
            @@ (5 :> I(2, ReturnVoid))]

\* a loop over two concrete registers: if-ne v0,v1 is not taken, the body
\* jumps back to the test
ConcreteLoopMethod ==
    [register_size |-> 2,
     insns |-> (0 :> I(2, ConstLit4(0, 1))) @@ (1 :> I(2, ConstLit4(1, 1)))
            @@ (2 :> I(4, Test("NotEqual", 0, 1, 3)))
            @@ (4 :> I(2, Goto8(-2))) @@ (5 :> I(2, ReturnVoid))]

\* packed-switch v0 with four targets; the last target jumps back to the switch
SwitchMethod ==
    [register_size |-> 2,
     insns |-> (0 :> I(2, ConstLit4(0, 1))) @@ (1 :> I(6, Switch(0, 9)))
            @@ (4 :> I(2, ReturnVoid))
            @@ (5 :> I(2, ConstLit4(1, 1))) @@ (6 :> I(2, ConstLit4(1, 2)))
            @@ (7 :> I(2, ReturnVoid)) @@ (8 :> I(2, Goto8(-7)))
            @@ (10 :> I(12, SwitchData(<< <<0, 4>>, <<1, 5>>, <<2, 6>>, <<3, 7>> >>)))]

\* two String.length calls bound by move-result, one Log.log call in between
InvokeMethod ==
    [register_size |-> 3,
     insns |-> (0 :> I(4, ConstString(0, 0)))
            @@ (2 :> I(6, InvokeVirtual(0, <<0>>))) @@ (5 :> I(2, MoveResult(1)))
            @@ (6 :> I(6, InvokeStatic(2, <<1>>)))
            @@ (9 :> I(6, InvokeVirtual(0, <<0>>))) @@ (12 :> I(2, MoveResult(2)))
            @@ (13 :> I(2, Return(1)))]

\* an unconditional goto cycle
GotoCycleMethod ==
    [register_size |-> 1,
     insns |-> (0 :> I(2, Nop)) @@ (1 :> I(2, Goto8(-1)))]

\* a test on an instantiated object followed by a test on an unassigned
\* register, then an unsupported opcode
TaintMethod ==
    [register_size |-> 3,
     insns |-> (0 :> I(4, NewInstance(1, 0)))
            @@ (2 :> I(4, TestZero("Equal", 1, 6)))
            @@ (4 :> I(4, TestZero("Equal", 2, 4)))
            @@ (6 :> I(2, NotImpl)) @@ (7 :> I(2, ReturnVoid))
            @@ (8 :> I(2, Nop)) @@ (9 :> I(2, ReturnVoid))]

\* the fall-through path returns at once; the taken path jumps back to the test
BackEdgeMethod ==
    [register_size |-> 1,
     insns |-> (0 :> I(4, NewInstance(0, 0)))
            @@ (2 :> I(4, TestZero("NotEqual", 0, 3)))
            @@ (4 :> I(2, ReturnVoid)) @@ (5 :> I(2, Goto8(-3)))]

\* a test whose taken path holds a second test inside a loop, while the
\* fall-through path of the first test returns at once
TwoSiteMethod ==
    [register_size |-> 1,
     insns |-> (0 :> I(4, NewInstance(0, 0)))
            @@ (2 :> I(4, TestZero("Equal", 0, 6)))
            @@ (4 :> I(2, ReturnVoid))
            @@ (8 :> I(4, TestZero("Equal", 0, 3)))
            @@ (10 :> I(2, Goto8(-2))) @@ (11 :> I(2, ReturnVoid))]

\* a switch with as many targets as the fork cap; one of them leads to a
\* second switch, the others return
BigSwitchMethod ==
    [register_size |-> 1,
     insns |-> (0 :> I(6, Switch(0, 6))) @@ (3 :> I(2, ReturnVoid))
            @@ (4 :> I(6, Switch(0, 3)))
            @@ (6 :> I(2, SwitchData([k \in 1..FORK_CAP |->
                                        <<k - 1, IF k = 1 THEN 4 ELSE 3>>])))
            @@ (7 :> I(2, SwitchData(<< <<0, -1>>, <<1, -1>> >>)))]

\* new-instance v0; invoke-interface Res.close; invoke-interface Api.call;
\* move-result v1; invoke-interface Task.run; invoke-interface Res.close;
\* move-result v2; invoke-static/range Crypto.decrypt {v0}; move-result-object
\* v1; return-void
InterfaceMethod ==
    [register_size |-> 3,
     insns |-> (0 :> I(4, NewInstance(0, 0)))
            @@ (2 :> I(6, InvokeInterface(6, <<0>>)))
            @@ (5 :> I(6, InvokeInterface(3, <<0>>)))
            @@ (8 :> I(2, MoveResult(1)))
            @@ (9 :> I(6, InvokeInterface(5, <<0>>)))
            @@ (12 :> I(6, InvokeInterface(6, <<0>>)))
            @@ (15 :> I(2, MoveResult(2)))
            @@ (16 :> I(6, InvokeStaticRange(1, 1, 0)))
            @@ (19 :> I(2, MoveResultObject(1)))
            @@ (20 :> I(2, ReturnVoid))]

\* const/4 v0,6; const/4 v1,0; const/4 v2,6; div-int/2addr v0,v1;
\* rem-int/2addr v2,v1; return-void
DivZeroMethod ==
    [register_size |-> 3,
     insns |-> (0 :> I(2, ConstLit4(0, 6))) @@ (1 :> I(2, ConstLit4(1, 0)))
            @@ (2 :> I(2, ConstLit4(2, 6))) @@ (3 :> I(2, DivInt(0, 1)))
            @@ (4 :> I(2, RemInt(2, 1))) @@ (5 :> I(2, ReturnVoid))]

\* a method that starts with a test and reaches the test at offset 4 three
\* times, from offsets 3, 11 and 3 again:
\* (0:) if-eqz v1,+10; const/4 v0,0; (3:) nop; (4:) if-eqz v1,+6;
\* if-eqz v0,+5; if-eqz v0,-5; (10:) return-void; (11:) goto -7
AlternatingTestsMethod ==
    [register_size |-> 2,
     insns |-> (0 :> I(4, TestZero("Equal", 1, 10)))
            @@ (2 :> I(2, ConstLit4(0, 0))) @@ (3 :> I(2, Nop))
            @@ (4 :> I(4, TestZero("Equal", 1, 6)))
            @@ (6 :> I(4, TestZero("Equal", 0, 5)))
            @@ (8 :> I(4, TestZero("Equal", 0, -5)))
            @@ (10 :> I(2, ReturnVoid)) @@ (11 :> I(2, Goto8(-7)))]

\* a loop that revisits its header while one forked branch runs off the
\* method and another one sits on a goto to itself:
\* new-instance v0; (2:) if-eqz v0,+6; if-eqz v0,+7; goto -4; (8:) nop; nop;
\* (10: no instruction); (11:) goto +0
AnomalyMethod ==
    [register_size |-> 1,
     insns |-> (0 :> I(4, NewInstance(0, 0)))
            @@ (2 :> I(4, TestZero("Equal", 0, 6)))
            @@ (4 :> I(4, TestZero("Equal", 0, 7)))
            @@ (6 :> I(2, Goto8(-4)))
            @@ (8 :> I(2, Nop)) @@ (9 :> I(2, Nop))
            @@ (11 :> I(2, Goto8(0)))]

\* a call followed by a goto and a move-result, a static read followed by a
\* move-result, a call followed by a taken test and a move-result:
\* const/4 v3,0; invoke-static Crypto.decrypt {v3}; goto +1; move-result v1;
\* sget v0,Cfg.KEY; move-result v2; invoke-static Crypto.decrypt {v3};
\* if-eqz v3,+3; (15:) move-result-object v0; return-void
StaleCallMethod ==
    [register_size |-> 4,
     insns |-> (0 :> I(2, ConstLit4(3, 0)))
            @@ (1 :> I(6, InvokeStatic(1, <<3>>)))
            @@ (4 :> I(2, Goto8(1)))
            @@ (5 :> I(2, MoveResult(1)))
            @@ (6 :> I(4, StaticGet(0, 0)))
            @@ (8 :> I(2, MoveResult(2)))
            @@ (9 :> I(6, InvokeStatic(1, <<3>>)))
            @@ (12 :> I(4, TestZero("Equal", 3, 3)))
            @@ (15 :> I(2, MoveResultObject(0)))
            @@ (16 :> I(2, ReturnVoid))]

\* every comparator once between two registers and once against zero, on
\* v0 = 1, v1 = 2, v2 = 0, followed by two tests with an operand that is not
\* a number (an object, then an unassigned register)
CompareMethod ==
    [register_size |-> 5,
     insns |-> (0 :> I(2, ConstLit4(0, 1))) @@ (1 :> I(2, ConstLit4(1, 2)))
            @@ (2 :> I(2, ConstLit4(2, 0)))
            @@ (3 :> I(4, Test("Equal", 0, 1, 3)))
            @@ (5 :> I(4, Test("NotEqual", 0, 1, 3)))
            @@ (8 :> I(4, Test("LessThan", 0, 0, 3)))
            @@ (10 :> I(4, Test("LessEqual", 0, 0, 3)))
            @@ (13 :> I(4, Test("GreaterThan", 1, 1, 3)))
            @@ (15 :> I(4, Test("GreaterEqual", 1, 1, 3)))
            @@ (18 :> I(4, TestZero("Equal", 0, 3)))
            @@ (20 :> I(4, TestZero("NotEqual", 0, 3)))
            @@ (23 :> I(4, TestZero("LessThan", 2, 3)))
            @@ (25 :> I(4, TestZero("LessEqual", 2, 3)))
            @@ (28 :> I(4, TestZero("GreaterThan", 2, 3)))
            @@ (30 :> I(4, TestZero("GreaterEqual", 2, 3)))
            @@ (33 :> I(4, NewInstance(3, 0)))
            @@ (35 :> I(4, Test("Equal", 0, 3, 4)))
            @@ (37 :> I(4, Test("NotEqual", 4, 0, 3)))
            @@ (39 :> I(2, ReturnVoid)) @@ (40 :> I(2, ReturnVoid))]

\* the root executes an unsupported opcode in the tick in which its child
\* forks: new-instance v0; if-eqz v0,+4; <unsupported opcode>; return-void;
\* (6:) if-eqz v0,+3; return-void; return-void
ForkTaintMethod ==
    [register_size |-> 1,
     insns |-> (0 :> I(4, NewInstance(0, 0)))
            @@ (2 :> I(4, TestZero("Equal", 0, 4)))
            @@ (4 :> I(2, NotImpl)) @@ (5 :> I(2, ReturnVoid))
            @@ (6 :> I(4, TestZero("Equal", 0, 3)))
            @@ (8 :> I(2, ReturnVoid)) @@ (9 :> I(2, ReturnVoid))]

\* a forked branch fans out over a switch with more targets than the
\* explosion threshold of the find query while the root stays in a goto
\* loop: new-instance v0; if-eqz v0,+4; (4:) nop; goto -1; (6:) packed-switch
\* v0; (9:) return-void
ExplosionMethod ==
    [register_size |-> 1,
     insns |-> (0 :> I(4, NewInstance(0, 0)))
            @@ (2 :> I(4, TestZero("Equal", 0, 4)))
            @@ (4 :> I(2, Nop)) @@ (5 :> I(2, Goto8(-1)))
            @@ (6 :> I(6, Switch(0, 4)))
            @@ (9 :> I(2, ReturnVoid))
            @@ (10 :> I(2, SwitchData([k \in 1..(EXPLOSION_BRANCHES + 1) |->
                                         <<k - 1, 3>>])))]

\* the root forks twice and stays unfinished for two more ticks while its
\* first child fans out over a switch with as many targets as the fork cap;
\* of the targets one is a test, one a second switch, the others a nop
\* before the return: new-instance v0; if-eqz v0,+6; if-eqz v0,+2; (6:) nop;
\* return-void; (8:) packed-switch v0; (11:) if-eqz v0,+2; (13:) return-void;
\* (14:) packed-switch v0
CapMethod ==
    [register_size |-> 1,
     insns |-> (0 :> I(4, NewInstance(0, 0)))
            @@ (2 :> I(4, TestZero("Equal", 0, 6)))
            @@ (4 :> I(4, TestZero("Equal", 0, 2)))
            @@ (6 :> I(2, Nop)) @@ (7 :> I(2, ReturnVoid))
            @@ (8 :> I(6, Switch(0, 9)))
            @@ (11 :> I(4, TestZero("Equal", 0, 2)))
            @@ (13 :> I(2, ReturnVoid))
            @@ (14 :> I(6, Switch(0, 4)))
            @@ (17 :> I(2, SwitchData([k \in 1..FORK_CAP |->
                                         <<k - 1, IF k = 1 THEN 3
                                                  ELSE IF k = 2 THEN 6
                                                  ELSE -2>>])))
            @@ (18 :> I(2, SwitchData(<< <<0, -1>>, <<1, -1>> >>)))]

Methods ==
    << XorFoldMethod, SymForkMethod, LoopMethod, ConcreteLoopMethod,
       SwitchMethod, InvokeMethod, GotoCycleMethod, TaintMethod,
       BackEdgeMethod, TwoSiteMethod, BigSwitchMethod, InterfaceMethod,
       DivZeroMethod, AlternatingTestsMethod, AnomalyMethod, StaleCallMethod,
       CompareMethod, ForkTaintMethod, ExplosionMethod,
       CapMethod >>

(***************************************************************************)
(* State.  branches, already_branched, conservative and the method are the *)
(* fields of InstructionFlow.  Inside next_instruction: todo holds the      *)
(* branches whose task has not run yet, tick_already_branched is the local *)
(* clone of the revisit log shared by the tasks, branches_to_add and       *)
(* branches_to_taint are the two other shared lists.  nextId is the source *)
(* of fresh ids.  stepped and seed are history: what each task of the      *)
(* current tick did, and the offset of the last seeding.  call,            *)
(* query_type, query_op, iterations and result are the locals of the query *)
(* in progress; returned is the history of what the queries returned,      *)
(* budget the number of query calls the exploration still makes.  expr,    *)
(* machine, applied and outcome belong to the evaluation of Values outside *)
(* the engine: the operator application or instruction under evaluation,   *)
(* the VM it is concretized on, the Value the operator returned and what   *)
(* LastInstruction::execute returned.                                      *)
(***************************************************************************)
VARIABLES method, conservative, branches, already_branched,
          phase, todo, tick_already_branched, branches_to_add,
          branches_to_taint, nextId, stepped, seed, resets,
          call, query_type, query_op, iterations, result, returned, budget,
          expr, machine, applied, outcome, rerun

flowVars == <<method, conservative, branches, already_branched>>
tickVars == <<todo, tick_already_branched, branches_to_add, branches_to_taint,
              stepped>>
queryVars == <<call, query_type, query_op, iterations, result, returned,
               budget>>
evalVars == <<expr, machine, applied, outcome, rerun>>
vars == <<method, conservative, branches, already_branched, phase, todo,
          tick_already_branched, branches_to_add, branches_to_taint, nextId,
          stepped, seed, resets, call, query_type, query_op, iterations,
          result, returned, budget, expr, machine, applied, outcome, rerun>>

EmptyMap == [x \in {} |-> 0]
Insns == Methods[method].insns
register_size == Methods[method].register_size

\* InstructionFlow::get_instruction / method.get(&offset)
get_instruction(offset) ==
    IF offset \in DOMAIN Insns THEN Some(Insns[offset]) ELSE None

\* the Branch literal of InstructionFlow::new_branch
NewBranchRecord(pc, parent_id, id, sid) ==
    [parent_id |-> parent_id, id |-> id, pc |-> pc, previous_pc |-> pc,
     state |-> [id |-> sid,
                registers |-> [r \in 1..register_size |-> Empty],
                last_instruction |-> None,
                tainted |-> FALSE,
                loop_count |-> EmptyMap],
     finished |-> FALSE]

\* InstructionFlow::new_branch: refuses once more than 10 branches exist
new_branch(bs, pc, parent_id, id) ==
    IF Len(bs) > NEW_BRANCH_CAP
    THEN bs
    ELSE Append(bs, NewBranchRecord(pc, parent_id, id, id + 1))

\* faulty variant of fork: the clone keeps the state.id of its parent
fork_keeping_state_id(branch, id) == [branch EXCEPT !.id = id]

\* InstructionFlow::fork: the clone gets a fresh id and a fresh state.id
fork(branch, id) ==
    [branch EXCEPT !.id = id, !.state.id = id + 1]

\* InstructionFlow::is_done
is_done == branches = << >>

\* is_move_result
is_move_result(ins) ==
    ins.op \in {"MoveResult", "MoveResultObject", "MoveResultWide"}

\* is_function_call
is_function_call(ins) ==
    ins.op \in {"Invoke", "InvokeDirect", "InvokeDirectRange", "InvokeInterface",
                "InvokeInterfaceRange", "InvokeStatic", "InvokeStaticRange",
                "InvokeSuper", "InvokeSuperRange", "InvokeVirtual",
                "InvokeVirtualRange"}

Reg(b, r) == b.state.registers[r + 1]
SetReg(b, r, v) == [b EXCEPT !.state.registers[r + 1] = v]

\* what one task hands back: the branch, the shared revisit log, what it
\* appended to the pending forks and pending taints, whether it returned
\* before the common tail of the closure, and (history) the path it took
Eff(b, log, add, taint, ret, kind) ==
    [b |-> b, log |-> log, add |-> add, taint |-> taint, ret |-> ret,
     kind |-> kind]

\* faulty variant of Compare: LessEqual and GreaterEqual are strict
CompareStrict(test, left, right) ==
    CASE test = "Equal" -> left = right
      [] test = "NotEqual" -> left # right
      [] test \in {"LessThan", "LessEqual"} -> left < right
      [] test \in {"GreaterThan", "GreaterEqual"} -> left > right

\* the six TestFunction comparators
Compare(test, left, right) ==
    CASE test = "Equal" -> left = right
      [] test = "NotEqual" -> left # right
      [] test = "LessThan" -> left < right
      [] test = "LessEqual" -> left <= right
      [] test = "GreaterThan" -> left > right
      [] test = "GreaterEqual" -> left >= right

\* .any(|(id, offset)| offset == &b.pc && id == &b.id)
Logged(log, id, pc) == \E k \in DOMAIN log : log[k] = <<id, pc>>

\* faulty variant of RevisitTaints: only the entries of the revisited site
\* are tainted (the filter the source has commented out)
RevisitTaintsSameSite(b, log) ==
    LET site(e) == e[2] = b.pc
        hits == SelectSeq(log, site)
    IN  <<b.id>> \o [k \in DOMAIN hits |-> hits[k][1]]

\* the ids pushed to branches_to_taint on a revisit: the branch itself and
\* the id of every entry of the shared revisit log
RevisitTaints(b, log) == <<b.id>> \o [k \in DOMAIN log |-> log[k][1]]

\* the already-branched arm of Test / TestZero
Revisit(b, size, log) ==
    Eff([b EXCEPT !.pc = b.pc + (size \div 2)], log, << >>,
        RevisitTaints(b, log), TRUE, "revisit")

\* b.state.loop_count.entry(b.pc).or_insert(0).add_assign(1)
BumpLoopCount(lc, pc) ==
    IF pc \in DOMAIN lc THEN [lc EXCEPT ![pc] = lc[pc] + 1] ELSE lc @@ (pc :> 1)

\* faulty variant of TestChild: the clone keeps the loop_count of its parent
TestChildKeepsLoopCount(b, offset) ==
    [b EXCEPT !.parent_id = Some(b.id), !.pc = b.pc + offset]

\* the child queued by a symbolic Test / TestZero
TestChild(b, offset) ==
    [b EXCEPT !.parent_id = Some(b.id), !.pc = b.pc + offset,
              !.state.loop_count = EmptyMap]

\* faulty variant of TestTaints: an Empty operand does not taint
TestTaintsConservativeOnly(cons, operands) == cons

\* whether a symbolic test taints the branch
TestTaints(cons, operands) ==
    cons \/ \E k \in DOMAIN operands : operands[k] = Empty

\* the first-visit arm of Test / TestZero; operands are the tested registers,
\* rhs the numbers they are compared to when all of them are numbers
FirstVisit(b, test, operands, offset, size, log, cons) ==
    LET b1 == [b EXCEPT !.state.loop_count = BumpLoopCount(b.state.loop_count, b.pc)]
        log1 == Append(log, <<b.id, b.pc>>)
        nums == [k \in DOMAIN operands |-> try_get_number(operands[k])]
        left == nums[1].v
        right == IF Len(operands) = 2 THEN nums[2].v ELSE 0
    IN  IF \A k \in DOMAIN nums : nums[k].some
        THEN IF Compare(test, left, right)
             THEN Eff([b1 EXCEPT !.pc = b1.pc + offset], log1, << >>, << >>,
                      TRUE, "concrete")
             ELSE Eff(b1, log1, << >>, << >>, FALSE, "concrete")
        ELSE LET b2 == IF TestTaints(cons, operands)
                       THEN [b1 EXCEPT !.state.tainted = TRUE]
                       ELSE b1
             IN  Eff(b2, log1, << <<b.pc, TestChild(b2, offset)>> >>, << >>,
                     FALSE, "symbolic")

\* Instruction::Test and Instruction::TestZero
TestArm(b, ins, size, log, cons) ==
    LET operands == IF ins.op = "Test"
                    THEN << Reg(b, ins.left), Reg(b, ins.right) >>
                    ELSE << Reg(b, ins.left) >>
    IN  IF Logged(log, b.id, b.pc)
        THEN Revisit(b, size, log)
        ELSE FirstVisit(b, ins.test, operands, ins.offset, size, log, cons)

\* .any(|(_, offset)| offset == &b.pc)
SiteLogged(log, pc) == \E k \in DOMAIN log : log[k][2] = pc

\* faulty variant of SwitchChildren: the first target is skipped
SwitchChildrenSkipFirst(b, targets, log) ==
    IF SiteLogged(log, b.pc)
    THEN << >>
    ELSE [k \in 1..(Len(targets) - 1) |->
            <<b.pc, [b EXCEPT !.parent_id = Some(b.id),
                              !.pc = b.pc + targets[k + 1][2]]>>]

\* the children queued by a Switch whose payload is `targets`
SwitchChildren(b, targets, log) ==
    IF SiteLogged(log, b.pc)
    THEN << >>
    ELSE [k \in DOMAIN targets |->
            <<b.pc, [b EXCEPT !.parent_id = Some(b.id),
                              !.pc = b.pc + targets[k][2]]>>]

\* Instruction::Switch
SwitchArm(b, ins, log) ==
    LET data == get_instruction(b.pc + ins.table_offset)
        add == IF data.some /\ data.v.ins.op = "SwitchData"
               THEN SwitchChildren(b, data.v.ins.targets, log)
               ELSE << >>
    IN  Eff([b EXCEPT !.finished = TRUE], log, add, << >>, TRUE, "switch")

\* the FunctionCall built by the non-interface invoke arms
InvokeCall(m, args) ==
    LET dm == DexMethods[m + 1]
    IN  FunctionCall(dm.method_name,
                     dm.class_name \o "->" \o dm.method_name \o dm.sig,
                     dm.class_name, m, args,
                     IF dm.return_type = "V" THEN None
                     ELSE Some(Object(dm.return_type)))

\* the FunctionCall of the InvokeInterface arm: with exactly one implementor
\* the receiver is rewritten and every code of the implementor with the
\* method's name retargets the call; without such a code the interface call
\* is recorded only if no last_instruction was held before
InterfaceCall(b, ins) ==
    LET m == DexMethods[ins.method + 1]
        impls == get_implementations_for(m.class_name)
        args == [k \in DOMAIN ins.regs |-> Reg(b, ins.regs[k])]
        res == IF m.return_type = "V" THEN None
                  ELSE Some(Object(m.return_type))
        declared(a) ==
            FunctionCall(m.method_name,
                         m.class_name \o "->" \o m.method_name \o m.sig,
                         m.class_name, ins.method, a, res)
    IN  IF Len(impls) = 1
        THEN LET new_class == impls[1]
                 args1 == [args EXCEPT ![1] = Object(new_class.class_name)]
                 hits == {i \in DOMAIN new_class.codes :
                            DexMethods[new_class.codes[i] + 1].method_name
                              = m.method_name}
                 last == CHOOSE i \in hits : \A j \in hits : j <= i
             IN  IF hits # {}
                 THEN Some(FunctionCall(
                        DexMethods[new_class.codes[last] + 1].method_name,
                        new_class.class_name \o "->" \o m.method_name \o m.sig,
                        new_class.class_name, new_class.codes[last], args1,
                        res))
                 ELSE IF ~b.state.last_instruction.some
                      THEN Some(declared(args1))
                      ELSE b.state.last_instruction
        ELSE Some(declared(args))

\* the register-updating arms of the match; they fall to the common tail.
\* The arithmetic arms come in three shapes for each operator: OpInt/OpLong
\* write registers[left], OpIntDst/OpLongDst registers[dst], the literal
\* forms registers[dst] from a register and a literal.  (A zero literal of
\* div or rem panics in the operator; the value written here then stands
\* for the abort of the tick.)
Plain(b, ins) ==
    LET two == [n \in {"RemInt", "RemLong", "AddInt", "AddLong", "SubInt",
                       "SubLong", "MulInt", "MulLong", "DivInt", "DivLong",
                       "AndInt", "AndLong", "OrInt", "OrLong"} |->
                  CASE n \in {"RemInt", "RemLong"} -> "rem"
                    [] n \in {"AddInt", "AddLong"} -> "add"
                    [] n \in {"SubInt", "SubLong"} -> "sub"
                    [] n \in {"MulInt", "MulLong"} -> "mul"
                    [] n \in {"DivInt", "DivLong"} -> "div"
                    [] n \in {"AndInt", "AndLong"} -> "and"
                    [] n \in {"OrInt", "OrLong"} -> "or"]
        dst == [n \in {"RemIntDst", "RemLongDst", "AddIntDst", "AddLongDst",
                       "SubIntDst", "SubLongDst", "MulIntDst", "MulLongDst",
                       "DivIntDst", "DivLongDst", "AndIntDst", "AndLongDst",
                       "OrIntDst", "OrLongDst"} |->
                  CASE n \in {"RemIntDst", "RemLongDst"} -> "rem"
                    [] n \in {"AddIntDst", "AddLongDst"} -> "add"
                    [] n \in {"SubIntDst", "SubLongDst"} -> "sub"
                    [] n \in {"MulIntDst", "MulLongDst"} -> "mul"
                    [] n \in {"DivIntDst", "DivLongDst"} -> "div"
                    [] n \in {"AndIntDst", "AndLongDst"} -> "and"
                    [] n \in {"OrIntDst", "OrLongDst"} -> "or"]
        lit == [n \in {"XorIntDstLit8", "XorIntDstLit16", "RemIntLit8",
                       "RemIntLit16", "AddIntLit8", "AddIntLit16", "SubIntLit8",
                       "SubIntLit16", "MulIntLit8", "MulIntLit16", "DivIntLit8",
                       "DivIntLit16", "AndIntLit8", "AndIntLit16", "OrIntLit8",
                       "OrIntLit16", "ShrIntLit8", "UShrIntLit8"} |->
                  CASE n \in {"XorIntDstLit8", "XorIntDstLit16"} -> "xor"
                    [] n \in {"RemIntLit8", "RemIntLit16"} -> "rem"
                    [] n \in {"AddIntLit8", "AddIntLit16"} -> "add"
                    [] n \in {"SubIntLit8", "SubIntLit16"} -> "sub"
                    [] n \in {"MulIntLit8", "MulIntLit16"} -> "mul"
                    [] n \in {"DivIntLit8", "DivIntLit16"} -> "div"
                    [] n \in {"AndIntLit8", "AndIntLit16"} -> "and"
                    [] n \in {"OrIntLit8", "OrIntLit16"} -> "or"
                    [] n = "ShrIntLit8" -> "shr"
                    [] n = "UShrIntLit8" -> "ushr"]
    IN
    CASE ins.op \in {"XorInt", "XorLong"} ->
           SetReg(b, ins.left, BitXor(Reg(b, ins.left), Reg(b, ins.right)))
      [] ins.op \in {"XorIntDst", "XorLongDst"} ->
           SetReg(b, ins.dst, BitXor(Reg(b, ins.left), Reg(b, ins.right)))
      [] ins.op \in DOMAIN two ->
           SetReg(b, ins.left,
                  ValueOp(two[ins.op], Reg(b, ins.left), Reg(b, ins.right)))
      [] ins.op \in DOMAIN dst ->
           SetReg(b, ins.dst,
                  ValueOp(dst[ins.op], Reg(b, ins.left), Reg(b, ins.right)))
      [] ins.op \in DOMAIN lit ->
           SetReg(b, ins.dst, ValueOpLit(lit[ins.op], Reg(b, ins.left), ins.lit))
      [] ins.op \in {"InvokeVirtual", "InvokeSuper", "InvokeDirect", "InvokeStatic"} ->
           [b EXCEPT !.state.last_instruction =
               Some(InvokeCall(ins.method,
                               [k \in DOMAIN ins.regs |-> Reg(b, ins.regs[k])]))]
      [] ins.op = "InvokeInterface" ->
           [b EXCEPT !.state.last_instruction = InterfaceCall(b, ins)]
      [] ins.op \in {"InvokeVirtualRange", "InvokeSuperRange", "InvokeDirectRange",
                     "InvokeStaticRange", "InvokeInterfaceRange"} ->
           [b EXCEPT !.state.last_instruction = Some(InvokeCall(ins.method, << >>))]
      [] ins.op \in {"ConstLit4", "ConstLit16", "ConstLit32"} ->
           SetReg(b, ins.reg, Number(ins.val))
      [] ins.op = "ConstString" ->
           SetReg(b, ins.reg,
                  LET s == get_string(ins.str_idx)
                  IN  IF s.some THEN VString(s.v) ELSE Unknown("Ljava/lang/String;"))
      [] ins.op = "NewInstance" ->
           SetReg(b, ins.reg,
                  LET t == get_type_name(ins.ty)
                  IN  IF t.some THEN Object(t.v) ELSE Unknown("UNKNOWN"))
      [] ins.op \in {"Move", "MoveObject", "Move16", "MoveObject16"} ->
           SetReg(b, ins.dst, Reg(b, ins.src))
      [] ins.op \in {"StaticGet", "StaticGetObject", "StaticGetBoolean",
                     "StaticGetByte", "StaticGetChar", "StaticGetShort"} ->
           LET b1 == SetReg(b, ins.dst, Empty)
           IN  IF ins.field + 1 \in DOMAIN DexFields
               THEN [b1 EXCEPT !.state.last_instruction =
                        Some(ReadStaticField(DexFields[ins.field + 1].class_name,
                                             ins.field,
                                             DexFields[ins.field + 1].name))]
               ELSE b1
      [] ins.op \in {"MoveResult", "MoveResultWide", "MoveResultObject"} ->
           IF b.state.last_instruction.some
           THEN SetReg(b, ins.reg, Variable(b.state.last_instruction.v))
           ELSE b
      [] ins.op = "NotImpl" ->
           [b EXCEPT !.state.registers = [r \in DOMAIN b.state.registers |-> Empty]]
      [] OTHER -> b

\* the match on the instruction
Dispatch(b, ins, size, log, cons) ==
    CASE ins.op \in {"Goto8", "Goto16", "Goto32"} ->
           Eff([b EXCEPT !.pc = b.pc + ins.offset], log, << >>, << >>, TRUE, "goto")
      [] ins.op \in {"Test", "TestZero"} -> TestArm(b, ins, size, log, cons)
      [] ins.op = "Switch" -> SwitchArm(b, ins, log)
      [] ins.op \in {"ReturnVoid", "Return", "Throw"} ->
           Eff([b EXCEPT !.finished = TRUE], log, << >>, << >>, TRUE, "return")
      [] ins.op = "NotImpl" ->
           Eff(Plain(b, ins), log, << >>, <<b.id>>, FALSE, "notimpl")
      [] OTHER -> Eff(Plain(b, ins), log, << >>, << >>, FALSE, "plain")

\* the tail of the closure: a stale FunctionCall is dropped, pc advances
ClosureTail(b, ins, size) ==
    LET li == b.state.last_instruction
        b1 == IF /\ ~is_function_call(ins)
                 /\ ~is_move_result(ins)
                 /\ li.some /\ li.v.kind = "FunctionCall"
              THEN [b EXCEPT !.state.last_instruction = None]
              ELSE b
    IN  [b1 EXCEPT !.pc = b1.pc + (size \div 2)]

\* faulty variant of BranchTask: a branch whose pc has no instruction is
\* left unfinished
BranchTaskKeepsMissing(b, log, cons) ==
    IF b.pc # 0 /\ b.previous_pc = b.pc
    THEN Eff([b EXCEPT !.finished = TRUE], log, << >>, << >>, TRUE, "stuck")
    ELSE LET b1 == [b EXCEPT !.previous_pc = b.pc]
             got == get_instruction(b.pc)
         IN  IF ~got.some
             THEN Eff(b1, log, << >>, << >>, TRUE, "missing")
             ELSE LET e == Dispatch(b1, got.v.ins, got.v.size, log, cons)
                  IN  IF e.ret THEN e
                      ELSE [e EXCEPT !.b = ClosureTail(e.b, got.v.ins, got.v.size)]

\* the closure run for one unfinished branch
BranchTask(b, log, cons) ==
    IF b.pc # 0 /\ b.previous_pc = b.pc
    THEN Eff([b EXCEPT !.finished = TRUE], log, << >>, << >>, TRUE, "stuck")
    ELSE LET b1 == [b EXCEPT !.previous_pc = b.pc]
             got == get_instruction(b.pc)
         IN  IF ~got.some
             THEN Eff([b1 EXCEPT !.finished = TRUE], log, << >>, << >>, TRUE,
                      "missing")
             ELSE LET e == Dispatch(b1, got.v.ins, got.v.size, log, cons)
                  IN  IF e.ret THEN e
                      ELSE [e EXCEPT !.b = ClosureTail(e.b, got.v.ins, got.v.size)]

\* faulty variant of Taint: the registers are emptied as well, as the
\* NotImpl arm does
TaintAndClear(b) ==
    [b EXCEPT !.state.tainted = TRUE,
              !.state.registers = [r \in DOMAIN b.state.registers |-> Empty]]

\* b.state.tainted = true
Taint(b) == [b EXCEPT !.state.tainted = TRUE]

\* taint_recursively
RECURSIVE taint_recursively(_, _)
RECURSIVE TaintEach(_, _)
taint_recursively(id, bs) ==
    LET marked == [k \in DOMAIN bs |-> IF bs[k].id = id THEN Taint(bs[k]) ELSE bs[k]]
        isChild(k) == bs[k].id # id /\ bs[k].parent_id = Some(id)
        parents == [k \in DOMAIN SelectSeq([j \in DOMAIN bs |-> j], isChild) |->
                      bs[SelectSeq([j \in DOMAIN bs |-> j], isChild)[k]].id]
    IN  TaintEach(parents, marked)
TaintEach(ids, bs) ==
    IF ids = << >> THEN bs
    ELSE TaintEach(Tail(ids), taint_recursively(Head(ids), bs))

(***************************************************************************)
(* Construction: InstructionFlow::new leaves the branch list and the       *)
(* revisit log empty.                                                      *)
(***************************************************************************)
InitFlow ==
    /\ method \in DOMAIN Methods
    /\ conservative \in BOOLEAN
    /\ branches = << >>
    /\ already_branched = << >>
    /\ phase = "idle"
    /\ todo = {}
    /\ tick_already_branched = << >>
    /\ branches_to_add = << >>
    /\ branches_to_taint = << >>
    /\ nextId = 1
    /\ stepped = EmptyMap
    /\ seed = 0
    /\ resets = 0
    /\ call = "none"
    /\ query_type = "none"
    /\ query_op = {}
    /\ iterations = 0
    /\ result = << >>
    /\ returned = << >>

\* no Value is under evaluation
NoEval ==
    /\ expr = [kind |-> "none"]
    /\ machine = None
    /\ applied = None
    /\ outcome = None
    /\ rerun = None

\* the methods explored by Spec; CapMethod, whose ticks run a thousand
\* tasks, is explored on its own by CSpec
EngineMethods == DOMAIN Methods \ {20}

Init == InitFlow /\ method \in EngineMethods /\ budget = 0 /\ NoEval

\* faulty variant of Unfinished: the filter is missing
Unfiltered(bs) == DOMAIN bs

\* .filter(|b| !b.finished)
Unfinished(bs) == {k \in DOMAIN bs : ~bs[k].finished}

\* the first lines of next_instruction on the branch list bs: the three
\* shared lists are created and every unfinished branch gets a task
BeginTick(bs, ab) ==
    /\ phase' = "tick"
    /\ todo' = Unfinished(bs)
    /\ tick_already_branched' = ab
    /\ branches_to_add' = << >>
    /\ branches_to_taint' = << >>
    /\ stepped' = EmptyMap

\* InstructionFlow::reset
Reset(start) ==
    /\ phase = "idle"
    /\ resets < MaxResets
    /\ branches' = new_branch(<< >>, start, None, nextId)
    /\ already_branched' = << >>
    /\ nextId' = nextId + 2
    /\ seed' = start
    /\ resets' = resets + 1
    /\ UNCHANGED <<evalVars, method, conservative, phase, tickVars, queryVars>>

\* a caller invokes InstructionFlow::next_instruction
NextInstructionBegin ==
    /\ phase = "idle"
    /\ call = "none"
    /\ BeginTick(branches, already_branched)
    /\ UNCHANGED <<evalVars, flowVars, nextId, seed, resets, queryVars>>

\* whether the task of branch k reads or appends to the shared revisit log
Sensitive(k) ==
    LET b == branches[k]
        got == get_instruction(b.pc)
    IN  /\ ~(b.pc # 0 /\ b.previous_pc = b.pc)
        /\ got.some
        /\ got.v.ins.op \in {"Test", "TestZero"}

\* The tasks of a tick run in any order.  Only the tasks of Test / TestZero
\* read or append to the shared revisit log, so their order is left free;
\* the other tasks commute with every task (they append at most to the
\* pending forks or taints, which the join reads as a whole) and are taken
\* in branch order.
Runnable ==
    {k \in todo : Sensitive(k)}
    \cup (IF todo = {} THEN {}
          ELSE {CHOOSE k \in todo : \A j \in todo : k <= j})

\* One task of the parallel for_each runs to completion.
BranchStep(k) ==
    /\ phase = "tick"
    /\ k \in todo
    /\ LET e == BranchTask(branches[k], tick_already_branched, conservative)
       IN  /\ branches' = [branches EXCEPT ![k] = e.b]
           /\ tick_already_branched' = e.log
           /\ branches_to_add' = branches_to_add \o e.add
           /\ branches_to_taint' = branches_to_taint \o e.taint
           /\ stepped' = stepped @@ (k :> e.kind)
    /\ todo' = todo \ {k}
    /\ UNCHANGED <<evalVars, method, conservative, already_branched, phase, nextId, seed,
                   resets, queryVars>>

\* faulty variant of DrainTaints: only the branches whose id was queued are
\* tainted, not the branches below them
DrainTaintsFlat(bs, taints) ==
    [k \in DOMAIN bs |->
        IF \E t \in DOMAIN taints : taints[t] = bs[k].id
        THEN Taint(bs[k]) ELSE bs[k]]

\* the branch list after the pending taints are drained
DrainTaints(bs, taints) == TaintEach(taints, bs)

\* faulty variant of AdmitForks: there is no cap
AdmitForksUncapped(bs) == TRUE

\* whether the pending forks are admitted
AdmitForks(bs) == Len(bs) < FORK_CAP

\* the forks admitted at the end of the tick, with their fresh ids
Admitted(bs, adds, id0) ==
    IF AdmitForks(bs)
    THEN [k \in DOMAIN adds |-> fork(adds[k][2], id0 + 2 * (k - 1))]
    ELSE << >>

\* faulty variant of AdmittedLog: the admitted forks are not logged
AdmittedLogDropped(bs, adds, id0) == << >>

\* the revisit-log entries of the admitted forks
AdmittedLog(bs, adds, id0) ==
    IF AdmitForks(bs)
    THEN [k \in DOMAIN adds |-> <<id0 + 2 * (k - 1), adds[k][1]>>]
    ELSE << >>

\* the join of next_instruction: the shared revisit log is stored back, the
\* taints are drained, the forks are admitted
NextInstructionEnd ==
    /\ phase = "tick"
    /\ todo = {}
    /\ LET tainted == DrainTaints(branches, branches_to_taint)
           new == Admitted(tainted, branches_to_add, nextId)
       IN  /\ branches' = tainted \o new
           /\ already_branched' =
                 tick_already_branched
                 \o AdmittedLog(tainted, branches_to_add, nextId)
           /\ nextId' = nextId + 2 * Len(new)
    /\ phase' = IF call = "none" THEN "idle" ELSE "collect"
    /\ UNCHANGED <<evalVars, method, conservative, tickVars, seed, resets, queryVars>>

Next ==
    \/ \E start \in 0..MaxStart : Reset(start)
    \/ NextInstructionBegin
    \/ \E k \in Runnable : BranchStep(k)
    \/ NextInstructionEnd

Spec == Init /\ [][Next]_vars

(***************************************************************************)
(* The engine on CapMethod, reset once by its caller.                      *)
(***************************************************************************)
CInit == InitFlow /\ method = 20 /\ budget = 0 /\ NoEval

CNext ==
    \/ \E start \in 0..MaxStart : branches = << >> /\ Reset(start)
    \/ NextInstructionBegin
    \/ \E k \in Runnable : BranchStep(k)
    \/ NextInstructionEnd

CSpec == CInit /\ [][CNext]_vars

(***************************************************************************)
(* The engine on the two loop methods, with ticks that keep being run: a   *)
(* caller that loops around next_instruction starts the next tick whenever *)
(* one has returned, and the parallel for_each and the join of a started   *)
(* tick run to completion.                                                 *)
(***************************************************************************)
LInit == Init /\ method \in {3, 4}

LSpec ==
    /\ LInit
    /\ [][Next]_vars
    /\ WF_vars(NextInstructionBegin)
    /\ WF_vars(\E k \in Runnable : BranchStep(k))
    /\ WF_vars(NextInstructionEnd)

(***************************************************************************)
(* The query surface.  A query is a loop around next_instruction; phase    *)
(* "collect" is the point of the loop body right after the tick returned.  *)
(***************************************************************************)
\* the methods the queries are explored on
QueryMethods == {3, 6, 7}
\* the predicates handed to find_all_instruction_with_op, as the set of
\* strings they accept
QueryOps == { {"Ljava/lang/String;->length()I"} }
QueryTypes == {"FunctionCall"}

QInit == InitFlow /\ method \in QueryMethods /\ budget = MaxQueries /\ NoEval

\* the instruction a branch is positioned at is a Test or a TestZero
AtTest(b) ==
    LET got == get_instruction(b.pc)
    IN  got.some /\ got.v.ins.op \in {"Test", "TestZero"}

\* the for loop of get_all_branch_decisions over the branch list: the taint
\* of the snapshots collected so far is refreshed, a branch positioned at a
\* test is snapshotted
CollectDecisions(snaps, bs) ==
    LET refreshed ==
          [k \in DOMAIN snaps |->
             IF \E j \in DOMAIN bs :
                   bs[j].id = snaps[k].id /\ get_instruction(bs[j].pc).some
             THEN LET j == CHOOSE j \in DOMAIN bs :
                               bs[j].id = snaps[k].id /\ get_instruction(bs[j].pc).some
                  IN  [snaps[k] EXCEPT !.state.tainted = bs[j].state.tainted]
             ELSE snaps[k]]
    IN  refreshed \o SelectSeq(bs, AtTest)

\* branches.reverse()
Reverse(s) == [k \in DOMAIN s |-> s[Len(s) + 1 - k]]

\* branches.sort_by_key(|b| b.id): a stable sort
SortById(s) ==
    LET pos(k) == Cardinality({j \in DOMAIN s : s[j].id < s[k].id})
                  + Cardinality({j \in 1..k : s[j].id = s[k].id})
    IN  [p \in DOMAIN s |-> s[CHOOSE k \in DOMAIN s : pos(k) = p]]

\* the same_bucket closure of the dedup_by
SameDecision(left, right) ==
    left.id = right.id /\ left.previous_pc = right.previous_pc

\* branches.dedup_by(..): of a run of consecutive equal elements the first stays
DedupDecisions(s) ==
    LET keep(k) == k = 1 \/ ~SameDecision(s[k], s[k - 1])
        idx == SelectSeq([k \in DOMAIN s |-> k], keep)
    IN  [k \in DOMAIN idx |-> s[idx[k]]]

\* what get_all_branch_decisions does to the collected list before returning
FinishDecisions(snaps) == DedupDecisions(SortById(Reverse(snaps)))

\* a snapshot without the random ids
Anonymous(b) ==
    [pc |-> b.pc, previous_pc |-> b.previous_pc, finished |-> b.finished,
     registers |-> b.state.registers,
     last_instruction |-> b.state.last_instruction,
     tainted |-> b.state.tainted, loop_count |-> b.state.loop_count]

QueryReturn(value) ==
    /\ returned' = Append(returned,
                          [call |-> call, n |-> Len(branches),
                           count |-> Len(value),
                           snaps |-> {Anonymous(value[k]) : k \in DOMAIN value}])
    /\ result' = value
    /\ call' = "none"
    /\ phase' = "idle"
    /\ UNCHANGED <<iterations, query_type, query_op, budget, tickVars>>

\* get_all_branch_decisions up to its first call of next_instruction
GetAllBranchDecisions ==
    /\ phase = "idle"
    /\ call = "none"
    /\ budget > 0
    /\ budget' = budget - 1
    /\ LET bs == IF branches = << >>
                 THEN new_branch(branches, 0, None, nextId)
                 ELSE branches
       IN  /\ branches' = bs
           /\ nextId' = IF branches = << >> THEN nextId + 2 ELSE nextId
           /\ seed' = IF branches = << >> THEN 0 ELSE seed
           /\ BeginTick(bs, already_branched)
    /\ call' = "decisions"
    /\ result' = << >>
    /\ iterations' = 0
    /\ UNCHANGED <<evalVars, method, conservative, already_branched, resets, query_type,
                   query_op, returned>>

\* faulty variant of DecisionsDone: the iteration cap is missing
DecisionsDoneUncapped == is_done

\* the exit test of the loop of get_all_branch_decisions
DecisionsDone == is_done \/ iterations > MAX_ITERATIONS

\* the body of the loop of get_all_branch_decisions after the tick
DecisionsLoop ==
    /\ phase = "collect"
    /\ call = "decisions"
    /\ LET snaps == CollectDecisions(result, branches)
       IN  IF DecisionsDone
           THEN QueryReturn(FinishDecisions(snaps))
           ELSE /\ result' = snaps
                /\ iterations' = iterations + 1
                /\ BeginTick(branches, already_branched)
                /\ UNCHANGED <<call, query_type, query_op, returned, budget>>
    /\ UNCHANGED <<evalVars, flowVars, nextId, seed, resets>>

\* the match guard of find_all_instruction_with_op
Matches(b, type, op) ==
    LET li == b.state.last_instruction
    IN  /\ li.some
        /\ li.v.kind = type
        /\ type \in {"FunctionCall", "ReadStaticField", "StoreStaticField"}
        /\ (IF type = "FunctionCall" THEN li.v.signature ELSE li.v.name) \in op

\* the for loop of find_all_instruction_with_op over get_all_states()
CollectMatches(snaps, bs, type, op) ==
    LET hit(b) == Matches(b, type, op)
    IN  snaps \o SelectSeq(bs, hit)

\* find_all_instruction_with_op up to its first call of next_instruction
FindAllInstructionWithOp(type, op) ==
    /\ phase = "idle"
    /\ call = "none"
    /\ budget > 0
    /\ budget' = budget - 1
    /\ LET bs == new_branch(branches, 0, None, nextId)
       IN  /\ branches' = bs
           /\ BeginTick(bs, already_branched)
    /\ nextId' = nextId + 2
    /\ seed' = 0
    /\ call' = "find"
    /\ query_type' = type
    /\ query_op' = op
    /\ result' = << >>
    /\ iterations' = 0
    /\ UNCHANGED <<evalVars, method, conservative, already_branched, resets, returned>>

\* the three exit tests of the loop of find_all_instruction_with_op
FindDone ==
    \/ is_done
    \/ Len(branches) > EXPLOSION_BRANCHES /\ iterations > EXPLOSION_ITERATIONS
    \/ iterations > MAX_ITERATIONS

\* the body of the loop of find_all_instruction_with_op after the tick
FindLoop ==
    /\ phase = "collect"
    /\ call = "find"
    /\ LET snaps == CollectMatches(result, branches, query_type, query_op)
       IN  IF FindDone
           THEN QueryReturn(snaps)
           ELSE /\ result' = snaps
                /\ iterations' = iterations + 1
                /\ BeginTick(branches, already_branched)
                /\ UNCHANGED <<call, query_type, query_op, returned, budget>>
    /\ UNCHANGED <<evalVars, flowVars, nextId, seed, resets>>

QNext ==
    \/ GetAllBranchDecisions
    \/ \E type \in QueryTypes, op \in QueryOps : FindAllInstructionWithOp(type, op)
    \/ \E k \in Runnable : BranchStep(k)
    \/ NextInstructionEnd
    \/ DecisionsLoop
    \/ FindLoop

QSpec == QInit /\ [][QNext]_vars

(***************************************************************************)
(* Repeated find_all_* queries on one engine, without reset.               *)
(***************************************************************************)
RInit == InitFlow /\ method = 6 /\ budget = MaxFinds /\ NoEval

RNext ==
    \/ \E type \in QueryTypes, op \in QueryOps : FindAllInstructionWithOp(type, op)
    \/ \E k \in Runnable : BranchStep(k)
    \/ NextInstructionEnd
    \/ FindLoop

RSpec == RInit /\ [][RNext]_vars

(***************************************************************************)
(* Repeated find_all_* queries, without reset, on a method whose root      *)
(* revisits its tests for ever: the second call seeds its root while the   *)
(* root of the first call is still running.                                *)
(***************************************************************************)
PInit == InitFlow /\ method = 15 /\ budget = MaxFinds /\ NoEval

PSpec == PInit /\ [][RNext]_vars

(***************************************************************************)
(* One query on a fresh engine for a method that keeps more branches than  *)
(* the explosion threshold while one of them runs for ever.                *)
(***************************************************************************)
XInit == InitFlow /\ method = 19 /\ budget = MaxQueries /\ NoEval

XSpec == XInit /\ [][QNext]_vars

(***************************************************************************)
(* get_all_branch_decisions on a fresh engine for a method whose tests are *)
(* reached repeatedly.                                                     *)
(***************************************************************************)
DInit == InitFlow /\ method = 14 /\ budget = MaxQueries /\ NoEval

DNext ==
    \/ GetAllBranchDecisions
    \/ \E k \in Runnable : BranchStep(k)
    \/ NextInstructionEnd
    \/ DecisionsLoop

DSpec == DInit /\ [][DNext]_vars

(***************************************************************************)
(* Evaluation of Values outside the engine: one operator application,      *)
(* (Value, Value) or (Value, literal), followed by the concretization of a *)
(* deferred result on a VM; or the concretization of one instruction.      *)
(***************************************************************************)
\* the operand pairs on which i128 arithmetic neither overflows nor shifts
\* out of range, and whose result is small enough to be computed here
Defined(op, a, b) ==
    /\ op = "shl" => b \in 0 .. MaxShift
    /\ op = "shr" => b \in (0 .. MaxShift) \cup {126}
    /\ op = "ushr" => b \in (IF a < 0 THEN {0} ELSE 0 .. MaxShift) \cup {126}

\* The inputs.  Operands are drawn from every variant of Value, with a
\* String.length() call and a static field read as the Variables; an
\* operator application is evaluated on a VM where the call returns an
\* Int.  The instructions are calls of Crypto.decrypt with up to two
\* arguments, the field accesses and two deferred operations, on any VM.
EInit ==
    LET CallLength ==
            FunctionCall("length", "Ljava/lang/String;->length()I",
                         "Ljava/lang/String;", 0, <<VString("secret")>>,
                         Some(Object("I")))
        FieldRead == ReadStaticField("Lcom/app/Cfg;", 0, "Lcom/app/Cfg;->KEY")
        FieldStore ==
            StoreStaticField("Lcom/app/Cfg;", 0, "Lcom/app/Cfg;->KEY", Number(1))
        Literals == (0 - MaxAbs) .. MaxAbs
        Operands ==
            {Number(n) : n \in Literals}
              \cup {Byte(0), Byte(3), Boolean(FALSE), Boolean(TRUE), Char(0),
                    Char(2), Variable(CallLength), Variable(FieldRead),
                    Object("Lcom/app/Foo;"), Empty, Invalid, VString("secret")}
        ArgValues ==
            {Number(1), VString("secret"), Boolean(TRUE), Unknown("Lcom/app/Foo;"),
             Empty, Object("Lcom/app/Foo;"), Variable(CallLength),
             Variable(FieldRead)}
        Calls ==
            {FunctionCall("decrypt",
                          "Lcom/app/Crypto;->decrypt(Ljava/lang/String;)Ljava/lang/String;",
                          "Lcom/app/Crypto;", 1, args, res) :
               args \in {<< >>} \cup {<<a>> : a \in ArgValues}
                         \cup {<<a, b>> : a \in ArgValues, b \in ArgValues},
               res \in {Some(Object("Ljava/lang/String;")), Some(Object("Z"))}}
        Instructions ==
            Calls \cup {FieldRead, FieldStore,
                        BinaryOperation(Variable(CallLength), Number(2), "add"),
                        BinaryOperation(Variable(FieldRead), Variable(CallLength),
                                        "add")}
        Resolving(vm) ==
            /\ vm.lookup = "code" /\ ~vm.raises /\ vm.heap
            /\ vm.ret.some /\ vm.ret.v.vt = "Int"
        Numeric(v) ==
            LET c == try_get_value(v, machine)
            IN  IF c.ok THEN try_get_number(c.v) ELSE None
    IN  /\ InitFlow /\ method = 1 /\ ~conservative /\ budget = 0
        /\ applied = None
        /\ outcome = None
        /\ rerun = None
        /\ \/ /\ machine \in {vm \in VMs : Resolving(vm)}
              /\ \E op \in Operators, lhs \in Operands, rhs \in Operands :
                    /\ expr = [kind |-> "op", form |-> "value", op |-> op,
                               lhs |-> lhs, rhs |-> rhs]
                    /\ (Numeric(lhs).some /\ Numeric(rhs).some)
                          => Defined(op, Numeric(lhs).v, Numeric(rhs).v)
           \/ /\ machine \in {vm \in VMs : Resolving(vm)}
              /\ \E op \in Operators, lhs \in Operands, rhs \in Literals :
                    /\ expr = [kind |-> "op", form |-> "lit", op |-> op,
                               lhs |-> lhs, rhs |-> rhs]
                    /\ Numeric(lhs).some => Defined(op, Numeric(lhs).v, rhs)
           \/ /\ machine \in VMs
              /\ \E li \in Instructions : expr = [kind |-> "execute", li |-> li]

\* an operator of &Value is applied to its operands
Operate ==
    /\ expr.kind = "op"
    /\ ~applied.some
    /\ applied' = Some(IF expr.form = "value"
                       THEN ValueOp(expr.op, expr.lhs, expr.rhs)
                       ELSE ValueOpLit(expr.op, expr.lhs, expr.rhs))
    /\ UNCHANGED <<expr, machine, outcome, rerun>>
    /\ UNCHANGED <<flowVars, phase, tickVars, nextId, seed, resets, queryVars>>

\* LastInstruction::execute is called on the VM for the instruction under
\* evaluation: the one given, or the deferred operation an operator returned
Concretize ==
    LET subject ==
            IF expr.kind = "execute" THEN Some(expr.li)
            ELSE IF applied.some /\ applied.v.tag = "Variable"
            THEN Some(applied.v.li)
            ELSE None
    IN  /\ ~outcome.some
        /\ subject.some
        /\ outcome' = Some(execute(subject.v, machine))
        /\ UNCHANGED <<expr, machine, applied, rerun>>
        /\ UNCHANGED <<flowVars, phase, tickVars, nextId, seed, resets, queryVars>>

\* LastInstruction::execute is called a second time on the instruction the
\* first call left behind, on a VM that answers as before
ConcretizeAgain ==
    /\ expr.kind = "execute"
    /\ outcome.some
    /\ ~rerun.some
    /\ rerun' = Some(execute(after_execute(expr.li, machine), machine))
    /\ UNCHANGED <<expr, machine, applied, outcome>>
    /\ UNCHANGED <<flowVars, phase, tickVars, nextId, seed, resets, queryVars>>

ENext ==
    \/ Operate
    \/ Concretize
    \/ ConcretizeAgain

ESpec == EInit /\ [][ENext]_vars

(***************************************************************************)
(* Properties.                                                             *)
(***************************************************************************)
AllFinished == \A k \in DOMAIN branches : branches[k].finished
BetweenTicks == phase # "tick"

\* C1: once the engine is seeded, is_done() is true exactly when every
\* branch of the branch list is finished (asked between two ticks).
C1_IsDoneIffAllFinished ==
    (branches # << >> /\ BetweenTicks) => (is_done <=> AllFinished)

StraightLine ==
    \A o \in DOMAIN Insns :
        Insns[o].ins.op \notin {"Test", "TestZero", "Switch", "SwitchData",
                                "Goto8", "Goto16", "Goto32", "NotImpl"}

\* the offsets of the invokes whose signature satisfies the predicate op
MatchingInvokes(op) ==
    {o \in DOMAIN Insns :
        /\ is_function_call(Insns[o].ins)
        /\ InvokeCall(Insns[o].ins.method, << >>).signature \in op}

\* C3: on a straight-line method a find_all_* query holds one snapshot per
\* matching invoke its branch has executed so far, and returns exactly as
\* many snapshots as the method has matching invokes, each with a matching
\* last_instruction.signature.
C3_OneSnapshotPerCall ==
    /\ (StraightLine /\ call = "find" /\ Len(branches) = 1) =>
          Len(result) <= Cardinality({o \in MatchingInvokes(query_op) :
                                        o < branches[1].pc})
    /\ (StraightLine /\ returned # << >> /\ returned[1].call = "find") =>
          /\ returned[1].count = Cardinality(MatchingInvokes(query_op))
          /\ \A sn \in returned[1].snaps :
                /\ sn.last_instruction.some
                /\ sn.last_instruction.v.kind = "FunctionCall"
                /\ sn.last_instruction.v.signature \in query_op

\* C4: a find_all_* query repeated on the same engine returns the snapshots
\* (ids aside) of the first run on the fresh engine, and the engine holds no
\* more branches than when the first run returned.
C4_RepeatedQuerySame ==
    /\ Len(returned) >= 1 => Len(branches) <= returned[1].n
    /\ Len(returned) >= 2 =>
          /\ returned[2].count = returned[1].count
          /\ returned[2].snaps = returned[1].snaps

\* whether the branch with id bid occurs in the parent_id chain of branch c
RECURSIVE InChain(_, _, _)
InChain(bid, c, bs) ==
    /\ c.parent_id.some
    /\ \/ c.parent_id.v = bid
       \/ \E p \in DOMAIN bs :
              bs[p].id = c.parent_id.v /\ InChain(bid, bs[p], bs)

\* C5: after every tick, a branch with a tainted branch in its parent_id
\* chain is tainted.
C5_TaintReachesDescendants ==
    BetweenTicks =>
        \A k \in DOMAIN branches :
            branches[k].state.tainted =>
                \A c \in DOMAIN branches :
                    InChain(branches[k].id, branches[c], branches)
                        => branches[c].state.tainted

\* the branches that are in the list before and after a step
Kept == {k \in DOMAIN branches \cap DOMAIN branches' :
            branches'[k].id = branches[k].id}

\* C6 as stated: no step changes the pc or any part of the state of a
\* finished branch.
C6_FinishedFrozen ==
    [][\A k \in Kept :
          branches[k].finished =>
              /\ branches'[k].pc = branches[k].pc
              /\ branches'[k].state = branches[k].state]_vars

\* C6 amended: no step changes the pc, the registers, the last_instruction
\* or the loop_count of a finished branch, the branch stays finished, and
\* its tainted flag is never cleared (it can still be set).
C6_FinishedFrozenButTaint ==
    [][\A k \in Kept :
          branches[k].finished =>
              /\ branches'[k].finished
              /\ branches'[k].pc = branches[k].pc
              /\ branches'[k].state =
                    [branches[k].state EXCEPT
                        !.tainted = branches'[k].state.tainted]
              /\ branches[k].state.tainted => branches'[k].state.tainted]_vars

\* a branch that finished untainted and was tainted afterwards by the
\* revisit of its child
C6_Witness ==
    /\ method = 9
    /\ ~conservative
    /\ seed = 0
    /\ Len(branches) = 2
    /\ branches[1].finished
    /\ branches[1].state.tainted
    /\ Reg(branches[1], 0) # Empty

\* the join of a tick: its before-state holds the revisit log the tick
\* started with, its after-state the branch list after the tick
JoinStep == phase = "tick" /\ todo = {} /\ phase' # "tick"

\* whether the task of branch k executed, in the tick being joined, the
\* instruction at its previous_pc
Executed(k) == k \in DOMAIN stepped /\ stepped[k] # "stuck"

\* whether branch k executed a Test / TestZero that the revisit log already
\* held for it
RevisitedTest(k) ==
    LET b == branches[k]
        got == get_instruction(b.previous_pc)
    IN  /\ Executed(k)
        /\ got.some
        /\ got.v.ins.op \in {"Test", "TestZero"}
        /\ Logged(already_branched, b.id, b.previous_pc)

\* C7: when a branch executes a Test / TestZero at offset P while (its id, P)
\* is in the revisit log, then after that tick the branch is tainted, every
\* branch whose id occurs in the revisit log is tainted, the pc of the
\* branch is P + size/2, and the tick queued no fork of that branch.
C7_RevisitTaintsAndFallsThrough ==
    [][JoinStep =>
         \A k \in DOMAIN branches :
             RevisitedTest(k) =>
                 LET b == branches[k]
                     P == b.previous_pc
                 IN  /\ branches'[k].state.tainted
                     /\ \A e \in DOMAIN already_branched :
                           \A j \in DOMAIN branches' :
                               branches'[j].id = already_branched[e][1]
                                   => branches'[j].state.tainted
                     /\ branches'[k].pc = P + (Insns[P].size \div 2)
                     /\ \A a \in DOMAIN branches_to_add :
                           branches_to_add[a][2].parent_id # Some(b.id)
                     /\ \A j \in DOMAIN branches' :
                           branches'[j].parent_id = Some(b.id)
                               => j \in DOMAIN branches]_vars

\* a branch has revisited a test of the loop while a branch outside of the
\* loop, logged at another test, was finished and untainted
C7_Witness ==
    /\ method = 10
    /\ ~conservative
    /\ BetweenTicks
    /\ \E k \in DOMAIN stepped :
          /\ stepped[k] = "revisit"
          /\ branches[k].state.tainted
          /\ branches[k].pc = 10
    /\ branches[1].finished /\ branches[1].state.tainted

\* C8: const/4 v0,0; if-nez v1,+5; const/4 v2,1; return v2; const/4 v2,2;
\* return v2 seeded at offset 0: once all branches are finished there are
\* exactly two branches, both tainted, one with registers[2] = Number(1)
\* and the other with registers[2] = Number(2).
C8_SymbolicFork ==
    (method = 2 /\ seed = 0 /\ branches # << >> /\ BetweenTicks /\ AllFinished) =>
        /\ Len(branches) = 2
        /\ \A k \in DOMAIN branches :
              branches[k].finished /\ branches[k].state.tainted
        /\ \E k, j \in DOMAIN branches :
              /\ k # j
              /\ Reg(branches[k], 2) = Number(1)
              /\ Reg(branches[j], 2) = Number(2)

\* the fork scenario has run to quiescence without the conservative flag
C8_Witness ==
    /\ method = 2 /\ seed = 0 /\ ~conservative
    /\ branches # << >> /\ BetweenTicks /\ AllFinished

\* whether branch k executed a Switch with a SwitchData payload whose site
\* the revisit log did not hold
SwitchedFresh(k) ==
    LET b == branches[k]
        got == get_instruction(b.previous_pc)
        data == get_instruction(b.previous_pc + got.v.ins.table_offset)
    IN  /\ Executed(k)
        /\ got.some
        /\ got.v.ins.op = "Switch"
        /\ data.some
        /\ data.v.ins.op = "SwitchData"
        /\ ~SiteLogged(already_branched, b.previous_pc)

\* the fan-out of branch k after the join: one new branch per target, at
\* pc + displacement, child of k with the registers of k; k is finished
SwitchFanOut(k) ==
    LET b == branches[k]
        P == b.previous_pc
        T == Insns[P + Insns[P].ins.table_offset].ins.targets
        kids == {j \in DOMAIN branches' \ DOMAIN branches :
                    branches'[j].parent_id = Some(b.id)}
    IN  /\ Cardinality(kids) = Len(T)
        /\ \A d \in {T[i][2] : i \in DOMAIN T} :
              Cardinality({j \in kids : branches'[j].pc = P + d})
                  = Cardinality({i \in DOMAIN T : T[i][2] = d})
        /\ \A j \in kids : branches'[j].state.registers = b.state.registers
        /\ branches'[k].finished

\* C9 as stated: a Switch with k targets whose site is not in the revisit
\* log leaves, after that tick, exactly k new branches, one per target at
\* pc + displacement, each a child of the switching branch with its
\* registers, and the switching branch finished.
C9_SwitchFanOut ==
    [][JoinStep =>
         \A k \in DOMAIN branches : SwitchedFresh(k) => SwitchFanOut(k)]_vars

\* C9 amended: the same, provided the branch list holds fewer than
\* FORK_CAP branches when the tick ends; otherwise only the switching
\* branch is finished.
C9_SwitchFanOutBelowCap ==
    [][JoinStep =>
         \A k \in DOMAIN branches :
             SwitchedFresh(k) =>
                 IF Len(branches) < FORK_CAP
                 THEN SwitchFanOut(k)
                 ELSE branches'[k].finished]_vars

\* the four-target switch has fanned out
C9_Witness ==
    /\ method = 5
    /\ BetweenTicks
    /\ \E k \in DOMAIN stepped :
          /\ stepped[k] = "switch"
          /\ branches[k].finished
          /\ Cardinality({j \in DOMAIN branches :
                            branches[j].parent_id = Some(branches[k].id)}) = 4

\* C10: const/16 v0,0x2A; const/16 v1,0x15; xor-int v0,v1; return v0 seeded
\* at offset 0: once no unfinished branch remains there is exactly one
\* branch, finished, not tainted, with registers[0] = Number(63).
C10_XorFold ==
    (method = 1 /\ seed = 0 /\ branches # << >> /\ BetweenTicks /\ AllFinished) =>
        /\ Len(branches) = 1
        /\ branches[1].finished
        /\ ~branches[1].state.tainted
        /\ Reg(branches[1], 0) = Number(63)

\* the xor fold has run to its return
C10_Witness ==
    /\ method = 1 /\ seed = 0
    /\ branches # << >> /\ BetweenTicks /\ AllFinished
    /\ branches[1].pc = 5

\* the branch has just executed the instruction at its previous_pc and the
\* common tail has advanced it past that instruction
JustExecuted(b, ops) ==
    LET got == get_instruction(b.previous_pc)
    IN  /\ got.some
        /\ got.v.ins.op \in ops
        /\ b.pc = b.previous_pc + (got.v.size \div 2)

\* C11: after a branch executes invoke-interface, its last_instruction is a
\* FunctionCall; if the declared class has exactly one implementor the call
\* names the implementor's class and args[0] is Object{implementor}, and
\* with zero or several implementors it keeps the declared class and the
\* original receiver.
C11_InterfaceMonomorph ==
    \A k \in DOMAIN branches :
        LET b == branches[k]
            ins == get_instruction(b.previous_pc).v.ins
            m == DexMethods[ins.method + 1]
            impls == get_implementations_for(m.class_name)
            li == b.state.last_instruction
        IN  JustExecuted(b, {"InvokeInterface"}) =>
              /\ li.some
              /\ li.v.kind = "FunctionCall"
              /\ IF Len(impls) = 1
                 THEN /\ li.v.class_name = impls[1].class_name
                      /\ li.v.args[1] = Object(impls[1].class_name)
                 ELSE /\ li.v.class_name = m.class_name
                      /\ li.v.args[1] = Reg(b, ins.regs[1])

\* a (Value, Value) operator has been applied to two operands
AppliedValue == expr.kind = "op" /\ expr.form = "value" /\ applied.some

\* a OP b in 128-bit signed arithmetic: truncating division, remainder with
\* the sign of the dividend, arithmetic shr, and ushr on the unsigned
\* reinterpretation of a
Exact(op, a, b) ==
    CASE op = "xor" -> XorBits(a, b)
      [] op = "and" -> AndBits(a, b)
      [] op = "or" -> a + b - AndBits(a, b)
      [] op = "rem" -> TruncRem(a, b)
      [] op = "add" -> a + b
      [] op = "sub" -> a - b
      [] op = "mul" -> a * b
      [] op = "div" -> TruncDiv(a, b)
      [] op = "shl" -> a * (2 ^ b)
      [] op = "shr" -> ShrBits(a, b)
      [] op = "ushr" -> UShrBits(a, b)

\* C12: for every operator OP and all numbers a and b (b non-zero for div
\* and rem), &Number(a) OP &Number(b) is Number(a OP b) in 128-bit signed
\* arithmetic with truncating division, and Number(a).ushr(Number(b)) is
\* the logical shift of a taken as unsigned.
C12_ConstantFold ==
    ( /\ AppliedValue
      /\ expr.lhs.tag = "Number" /\ expr.rhs.tag = "Number"
      /\ expr.op \in {"div", "rem"} => expr.rhs.n # 0 ) =>
        applied.v = Number(Exact(expr.op, expr.lhs.n, expr.rhs.n))

\* C13: for every left operand that projects to a number and every right
\* operand that projects to the number 0, &left / &right and &left % &right
\* are Invalid (and so is what div-int and rem-int write to their register).
C13_DivRemByZeroInvalid ==
    ( /\ AppliedValue
      /\ expr.op \in {"div", "rem"}
      /\ try_get_number(expr.lhs).some
      /\ try_get_number(expr.rhs) = Some(0) ) =>
        applied.v = Invalid

\* C14: for every operator, when the two operands cannot both be projected
\* to numbers and at least one of them is a Variable, on either side, the
\* result is Variable(BinaryOperation) with the original operands as left
\* and right; the result is Invalid only when neither operand is a Variable.
C14_UnknownPropagation ==
    ( /\ AppliedValue
      /\ ~(try_get_number(expr.lhs).some /\ try_get_number(expr.rhs).some) ) =>
        /\ (expr.lhs.tag = "Variable" \/ expr.rhs.tag = "Variable") =>
              /\ applied.v.tag = "Variable"
              /\ applied.v.li.kind = "BinaryOperation"
              /\ applied.v.li.left = expr.lhs
              /\ applied.v.li.right = expr.rhs
        /\ applied.v = Invalid =>
              (expr.lhs.tag # "Variable" /\ expr.rhs.tag # "Variable")

\* a deferred operation returned by an operator applied to a Variable on the
\* left has been executed on the VM
Replayed ==
    /\ expr.kind = "op"
    /\ expr.lhs.tag = "Variable"
    /\ applied.some /\ applied.v.tag = "Variable"
    /\ applied.v.li.kind = "BinaryOperation"
    /\ outcome.some

\* C15: for every operator, in the (Value, Value) and in the (Value,
\* literal) form: if Variable(x) OP y gave Variable(BinaryOperation) and the
\* VM concretizes left to the number a and right to the number b, execute
\* returns what the same form of the operator folds a and b to, which is
\* Number(a OP b) (b non-zero for div and rem).
C15_DeferredReplay ==
    LET left == try_get_value(applied.v.li.left, machine)
        right == try_get_value(applied.v.li.right, machine)
        a == try_get_number(left.v)
        b == try_get_number(right.v)
        fold == IF expr.form = "value"
                THEN ValueOp(expr.op, Number(a.v), Number(b.v))
                ELSE ValueOpLit(expr.op, Number(a.v), b.v)
    IN  ( /\ Replayed
          /\ left.ok /\ right.ok
          /\ a.some /\ b.some
          /\ expr.op \in {"div", "rem"} => b.v # 0 ) =>
            /\ outcome.v.ok
            /\ outcome.v.v = fold
            /\ outcome.v.v = Number(Exact(expr.op, a.v, b.v))

\* the task of branch k runs in this step
Steps(k) == phase = "tick" /\ k \in todo /\ k \notin todo'

\* the register values an invoke passes: the listed registers, or the range
\* v(first) .. v(first + count - 1)
PassedArgs(b, ins) ==
    IF "regs" \in DOMAIN ins
    THEN [i \in DOMAIN ins.regs |-> Reg(b, ins.regs[i])]
    ELSE [i \in 1 .. ins.count |-> Reg(b, ins.first + i - 1)]

\* C16: if a branch executes an invoke of any family and in its next step a
\* move-result, move-result-wide or move-result-object into register r, then
\* registers[r] is afterwards Variable(FunctionCall) with the name,
\* signature, class_name, args and result of the FunctionCall of that
\* invoke, the args being the register values at the time of the invoke
\* (for an interface call with one implementor, with the rewritten receiver).
C16_MoveResultBinding ==
    [][\A k \in DOMAIN branches :
         LET b == branches[k]
             mv == get_instruction(b.pc)
             inv == get_instruction(b.previous_pc).v.ins
             m == DexMethods[inv.method + 1]
             impls == get_implementations_for(m.class_name)
             v == Reg(branches'[k], mv.v.ins.reg)
             passed == PassedArgs(b, inv)
         IN  ( /\ Steps(k)
               /\ JustExecuted(b, {"InvokeVirtual", "InvokeSuper", "InvokeDirect",
                                   "InvokeStatic", "InvokeInterface",
                                   "InvokeVirtualRange", "InvokeSuperRange",
                                   "InvokeDirectRange", "InvokeStaticRange",
                                   "InvokeInterfaceRange"})
               /\ mv.some /\ is_move_result(mv.v.ins) ) =>
                 /\ v.tag = "Variable"
                 /\ v.li.kind = "FunctionCall"
                 /\ v.li.name = m.method_name
                 /\ v.li.class_name \in
                      {m.class_name} \cup {impls[i].class_name : i \in DOMAIN impls}
                 /\ v.li.signature =
                      v.li.class_name \o "->" \o m.method_name \o m.sig
                 /\ v.li.result = (IF m.return_type = "V" THEN None
                                   ELSE Some(Object(m.return_type)))
                 /\ \/ v.li.args = passed
                    \/ /\ inv.op = "InvokeInterface" /\ Len(impls) = 1
                       /\ v.li.args =
                            [passed EXCEPT ![1] = Object(impls[1].class_name)]
    ]_vars

\* the engine holds exactly the branch that reset(seed) built: unfinished,
\* at pc = seed, all registers Empty, and the revisit log is empty
FreshlySeeded(bs, log) ==
    /\ Len(bs) = 1
    /\ bs[1] = NewBranchRecord(seed, None, bs[1].id, bs[1].state.id)
    /\ log = << >>

\* C17: after reset(start), for any start (zero or not) at which the method
\* has an instruction, the engine holds exactly one unfinished branch at
\* pc = start with all registers Empty and an empty revisit log, and the
\* first tick executes the instruction at start on that branch instead of
\* marking it finished by the non-advancing-pc guard.
C17_FirstStepNotStuck ==
    [][/\ (resets' = resets + 1 /\ seed' \in DOMAIN Insns) =>
             /\ Len(branches') = 1
             /\ branches'[1] = NewBranchRecord(seed', None, branches'[1].id,
                                               branches'[1].state.id)
             /\ branches'[1].pc = seed' /\ ~branches'[1].finished
             /\ already_branched' = << >>
       /\ ( /\ resets > 0 /\ seed \in DOMAIN Insns
            /\ FreshlySeeded(branches, already_branched)
            /\ Steps(1) ) =>
             stepped'[1] # "stuck"
    ]_vars

\* the non-advancing-pc guard is about to finish the branch
Stuck(b) == b.pc # 0 /\ b.previous_pc = b.pc

\* C18: during get_all_branch_decisions, whenever a branch is positioned at
\* a Test or TestZero it is about to execute (the seed branch at offset 0
\* before the first tick included), the list collected so far holds a
\* snapshot of that branch at that pc; the returned list keeps it unless it
\* is removed as a duplicate by (branch id, previous_pc).
C18_SnapshotPerVisit ==
    (call = "decisions" /\ phase = "tick") =>
        \A k \in todo :
            (AtTest(branches[k]) /\ ~Stuck(branches[k])) =>
                \E i \in DOMAIN result :
                    /\ result[i].id = branches[k].id
                    /\ result[i].pc = branches[k].pc
                    /\ result[i].previous_pc = branches[k].previous_pc

\* C19: the list returned by get_all_branch_decisions is sorted by branch id
\* and holds no two snapshots with the same (branch id, previous_pc).
C19_SortedAndDeduplicated ==
    ( /\ call = "none" /\ returned # << >>
      /\ returned[Len(returned)].call = "decisions" ) =>
        /\ \A i, j \in DOMAIN result : i < j => result[i].id <= result[j].id
        /\ \A i, j \in DOMAIN result :
              (i # j) => ~( /\ result[i].id = result[j].id
                            /\ result[i].previous_pc = result[j].previous_pc )

\* LastInstruction::execute has been called on a given instruction
InstructionExecuted == expr.kind = "execute" /\ outcome.some

\* one of the arguments of the call fails to concretize on the VM, or
\* concretizes to Unknown or Empty
BadArgument(li, vm) ==
    \E i \in DOMAIN li.args :
        LET c == try_get_value(li.args[i], vm)
        IN  ~c.ok \/ c.v.tag \in {"Unknown", "Empty"}

\* the methods started or invoked on the VM by the Variables among the
\* arguments of the call
ArgumentCalls(li, vm) ==
    SumCalls([i \in DOMAIN li.args |-> try_get_value(li.args[i], vm)])

\* C20 as stated: execute returns LinkerError without starting or invoking
\* any method on the VM when it is a FunctionCall with an argument that
\* fails to concretize or concretizes to Unknown or Empty, and when it is a
\* ReadStaticField or StoreStaticField; in every other FunctionCall case all
\* arguments are marshalled and exactly one of start, invoke_runtime and
\* invoke_runtime_with_method is called.
C20_ConcretizationErrors ==
    InstructionExecuted =>
        LET li == expr.li
            o == outcome.v
        IN  /\ li.kind \in {"ReadStaticField", "StoreStaticField"} =>
                 (~o.ok /\ o.v = "LinkerError" /\ o.calls = 0)
            /\ (li.kind = "FunctionCall" /\ BadArgument(li, machine)) =>
                 (~o.ok /\ o.v = "LinkerError" /\ o.calls = 0)
            /\ (li.kind = "FunctionCall" /\ ~BadArgument(li, machine)) =>
                 /\ Len(o.vm_args) = Len(li.args)
                 /\ o.own \in {"start", "invoke_runtime",
                               "invoke_runtime_with_method"}
                 /\ o.calls = ArgumentCalls(li, machine) + 1

\* C20, amended: with such an argument execute returns LinkerError without
\* marshalling anything and without starting or invoking the method of the
\* FunctionCall itself, but only after every argument has been evaluated:
\* the calls held by arguments that are Variables have been started or
\* invoked on the VM.  The field accesses fail without touching the VM, and
\* every other FunctionCall marshals all its arguments and calls exactly one
\* of start, invoke_runtime and invoke_runtime_with_method.
C20_ConcretizationErrorsAfterArguments ==
    InstructionExecuted =>
        LET li == expr.li
            o == outcome.v
        IN  /\ li.kind \in {"ReadStaticField", "StoreStaticField"} =>
                 (~o.ok /\ o.v = "LinkerError" /\ o.calls = 0)
            /\ (li.kind = "FunctionCall" /\ BadArgument(li, machine)) =>
                 /\ ~o.ok /\ o.v = "LinkerError"
                 /\ o.own = "none" /\ o.vm_args = << >>
                 /\ o.calls = ArgumentCalls(li, machine)
            /\ (li.kind = "FunctionCall" /\ ~BadArgument(li, machine)) =>
                 /\ Len(o.vm_args) = Len(li.args)
                 /\ o.own \in {"start", "invoke_runtime",
                               "invoke_runtime_with_method"}
                 /\ o.calls = ArgumentCalls(li, machine) + 1

\* a call whose first argument is a call that the VM runs and whose second
\* argument is Unknown has been refused with LinkerError after one call
C20_Witness ==
    /\ InstructionExecuted
    /\ expr.li.kind = "FunctionCall"
    /\ Len(expr.li.args) = 2
    /\ expr.li.args[1].tag = "Variable"
    /\ expr.li.args[2].tag = "Unknown"
    /\ ~outcome.v.ok /\ outcome.v.v = "LinkerError"
    /\ outcome.v.calls = 1

\* a branch the guard at the head of the closure stops, or whose pc has no
\* instruction in the method map
Anomalous(b) ==
    \/ b.pc # 0 /\ b.previous_pc = b.pc
    \/ ~get_instruction(b.pc).some

\* one task of the tick has run: the branch it ran for
TaskStep(k) == phase = "tick" /\ k \in todo /\ k \notin todo'

\* the task of an anomalous branch k marks it finished, leaves its pc and
\* its state alone and touches neither the other branches nor the three
\* lists the tasks share
AbsorbedByTask(k) ==
    /\ branches'[k].finished
    /\ branches'[k].pc = branches[k].pc
    /\ branches'[k].state = branches[k].state
    /\ \A j \in DOMAIN branches \ {k} : branches'[j] = branches[j]
    /\ tick_already_branched' = tick_already_branched
    /\ branches_to_add' = branches_to_add
    /\ branches_to_taint' = branches_to_taint

\* the branches whose task found them anomalous in the tick being joined
Absorbed == {k \in DOMAIN stepped : stepped[k] \in {"stuck", "missing"}}

\* C21 as stated: a branch whose pc has no instruction, or with pc # 0 and
\* previous_pc = pc, is marked finished by the tick with its registers, its
\* taint and its last_instruction unchanged, and its task changes nothing
\* the tasks of the other branches read or write.
C21_AnomaliesAbsorbed ==
    [][/\ \A k \in DOMAIN branches :
            (TaskStep(k) /\ Anomalous(branches[k])) => AbsorbedByTask(k)
       /\ JoinStep =>
            \A k \in Absorbed :
                /\ branches'[k].finished
                /\ branches'[k].state = branches[k].state]_vars

\* C21 amended: the same, except that the tainted flag of the anomalous
\* branch, which its own task leaves alone and which is never cleared, can
\* be set by the taint drain at the end of the same tick.
C21_AnomaliesAbsorbedButTaint ==
    [][/\ \A k \in DOMAIN branches :
            (TaskStep(k) /\ Anomalous(branches[k])) => AbsorbedByTask(k)
       /\ JoinStep =>
            \A k \in Absorbed :
                /\ branches'[k].finished
                /\ branches'[k].state =
                      [branches[k].state EXCEPT
                          !.tainted = branches'[k].state.tainted]
                /\ branches[k].state.tainted => branches'[k].state.tainted
                /\ branches'[k].state.tainted # branches[k].state.tainted
                      => branches_to_taint # << >>]_vars

\* in one tick a branch ran off the method, another one sat on a goto to
\* itself, and the revisit of the loop header by a third one tainted both
C21_Witness ==
    /\ method = 15 /\ ~conservative /\ seed = 0
    /\ BetweenTicks
    /\ \E k, j, r \in DOMAIN stepped :
          /\ stepped[k] = "missing" /\ stepped[j] = "stuck"
          /\ stepped[r] = "revisit"
          /\ branches[k].finished /\ branches[k].state.tainted
          /\ branches[j].finished /\ branches[j].state.tainted
          /\ ~branches[r].finished

\* the task that has just run for branch k executed an instruction whose
\* opcode is in ops
Executes(k, ops) ==
    /\ TaskStep(k)
    /\ ~Anomalous(branches[k])
    /\ get_instruction(branches[k].pc).v.ins.op \in ops

\* C22: the task that executes an unsupported opcode (NotImpl) queues the
\* taint of its branch and marks the branch finished, so that the branch
\* executes no further instruction.
C22_NotImplFinishes ==
    [][\A k \in DOMAIN branches :
          Executes(k, {"NotImpl"}) =>
              /\ branches_to_taint' = Append(branches_to_taint, branches[k].id)
              /\ branches'[k].finished]_vars

\* the registers a Test / TestZero at the pc of branch b tests
Tested(b) ==
    LET ins == get_instruction(b.pc).v.ins
    IN  IF ins.op = "Test"
        THEN << Reg(b, ins.left), Reg(b, ins.right) >>
        ELSE << Reg(b, ins.left) >>

\* branch k has just executed a Test / TestZero that the revisit log shared
\* by the tasks did not hold for it
FirstTest(k) ==
    /\ Executes(k, {"Test", "TestZero"})
    /\ ~Logged(tick_already_branched, branches[k].id, branches[k].pc)

\* whether the comparator holds, by the sign of the difference of the
\* operands
Sign(n) == IF n < 0 THEN -1 ELSE IF n > 0 THEN 1 ELSE 0
Holds(test, left, right) ==
    Sign(left - right) \in
        (CASE test = "Equal" -> {0}
           [] test = "NotEqual" -> {-1, 1}
           [] test = "LessThan" -> {-1}
           [] test = "LessEqual" -> {-1, 0}
           [] test = "GreaterThan" -> {1}
           [] test = "GreaterEqual" -> {0, 1})

\* C23: a Test whose two registers project to numbers, and a TestZero whose
\* register projects to a number, executed at a site not yet logged for the
\* branch, queues no fork and no taint, leaves the tainted flag alone, and
\* moves the pc by the displacement if the comparator holds on the operands
\* (the right operand of TestZero being 0) and by size/2 otherwise.
C23_ConcreteTestsNeverFork ==
    [][\A k \in DOMAIN branches :
          (/\ FirstTest(k)
           /\ \A i \in DOMAIN Tested(branches[k]) :
                  try_get_number(Tested(branches[k])[i]).some) =>
              LET b == branches[k]
                  got == get_instruction(b.pc).v
                  ops == Tested(b)
                  left == try_get_number(ops[1]).v
                  right == IF Len(ops) = 2 THEN try_get_number(ops[2]).v ELSE 0
              IN  /\ branches_to_add' = branches_to_add
                  /\ branches_to_taint' = branches_to_taint
                  /\ branches'[k].state.tainted = b.state.tainted
                  /\ branches'[k].pc =
                        IF Holds(got.ins.test, left, right)
                        THEN b.pc + got.ins.offset
                        ELSE b.pc + (got.size \div 2)]_vars

\* the branch of CompareMethod has executed the twelve tests on numbers,
\* six of them taken, and is still alone and untainted
C23_Witness ==
    /\ method = 17 /\ seed = 0 /\ conservative
    /\ Len(branches) = 1
    /\ branches[1].pc = 33
    /\ ~branches[1].state.tainted
    /\ DOMAIN branches[1].state.loop_count =
          {3, 5, 8, 10, 13, 15, 18, 20, 23, 25, 28, 30}

\* C24: a Test / TestZero with an operand that is not a number, executed at
\* a site not yet logged for the branch, queues exactly one child, a clone
\* at pc + displacement with parent_id = the branch, the registers of the
\* branch and an empty loop_count; the branch continues at pc + size/2; and
\* the instruction sets the tainted flag of the branch, and so of the child,
\* exactly if the engine is conservative or a tested register is Empty.
C24_SymbolicTestFork ==
    [][\A k \in DOMAIN branches :
          (/\ FirstTest(k)
           /\ \E i \in DOMAIN Tested(branches[k]) :
                  ~try_get_number(Tested(branches[k])[i]).some) =>
              LET b == branches[k]
                  got == get_instruction(b.pc).v
                  ops == Tested(b)
                  taints == conservative \/ \E i \in DOMAIN ops : ops[i] = Empty
                  queued == branches_to_add'[Len(branches_to_add')]
                  child == queued[2]
              IN  /\ Len(branches_to_add') = Len(branches_to_add) + 1
                  /\ SubSeq(branches_to_add', 1, Len(branches_to_add))
                        = branches_to_add
                  /\ queued[1] = b.pc
                  /\ child.pc = b.pc + got.ins.offset
                  /\ child.parent_id = Some(b.id)
                  /\ child.state.loop_count = EmptyMap
                  /\ child.state.registers = b.state.registers
                  /\ branches'[k].state.registers = b.state.registers
                  /\ branches'[k].pc = b.pc + (got.size \div 2)
                  /\ ~branches'[k].finished
                  /\ branches'[k].state.tainted = (b.state.tainted \/ taints)
                  /\ child.state.tainted = branches'[k].state.tainted]_vars

\* CompareMethod without the conservative flag has run to its end: the
\* child of the test on an object is untainted, the test on an unassigned
\* register has tainted the root and its second child
C24_Witness ==
    /\ method = 17 /\ seed = 0 /\ ~conservative
    /\ BetweenTicks /\ AllFinished
    /\ Len(branches) = 3
    /\ branches[1].state.tainted
    /\ branches[2].parent_id = Some(branches[1].id)
    /\ branches[2].pc = 39 /\ ~branches[2].state.tainted
    /\ branches[2].state.loop_count = EmptyMap
    /\ branches[3].parent_id = Some(branches[1].id)
    /\ branches[3].pc = 40 /\ branches[3].state.tainted

\* whether branch b holds the FunctionCall of an earlier invoke
HoldsCall(b) ==
    /\ b.state.last_instruction.some
    /\ b.state.last_instruction.v.kind = "FunctionCall"

\* C25: when a branch that holds last_instruction = FunctionCall executes an
\* instruction that is neither an invoke nor a move-result (goto, taken test,
\* revisited test, return and throw included), its last_instruction is None
\* after that step.
C25_StaleCallDiscarded ==
    [][\A k \in DOMAIN branches :
          (/\ TaskStep(k)
           /\ ~Anomalous(branches[k])
           /\ ~is_function_call(get_instruction(branches[k].pc).v.ins)
           /\ ~is_move_result(get_instruction(branches[k].pc).v.ins)
           /\ HoldsCall(branches[k])) =>
              branches'[k].state.last_instruction = None]_vars

\* C26: move-result, move-result-wide and move-result-object leave every
\* register unchanged when the last_instruction of the branch is not a
\* FunctionCall.
C26_MoveResultWithoutCall ==
    [][\A k \in DOMAIN branches :
          (/\ Executes(k, {"MoveResult", "MoveResultWide", "MoveResultObject"})
           /\ ~HoldsCall(branches[k])) =>
              branches'[k].state.registers = branches[k].state.registers]_vars

\* C27: after a branch executes an invoke instruction (virtual, super,
\* direct, static, interface or a /range variant), its last_instruction is
\* a FunctionCall for that invocation, whatever it held before: the name is
\* the invoked method's name and the result is Object{return type}, or
\* nothing for the return type V.
C27_InvokeRecordsItsCall ==
    [][\A k \in DOMAIN branches :
          Executes(k, {"InvokeVirtual", "InvokeSuper", "InvokeDirect",
                       "InvokeStatic", "InvokeInterface", "InvokeVirtualRange",
                       "InvokeSuperRange", "InvokeDirectRange",
                       "InvokeStaticRange", "InvokeInterfaceRange"}) =>
              LET m == DexMethods[get_instruction(branches[k].pc).v.ins.method + 1]
                  li == branches'[k].state.last_instruction
              IN  /\ li.some
                  /\ li.v.kind = "FunctionCall"
                  /\ li.v.name = m.method_name
                  /\ li.v.result = IF m.return_type = "V" THEN None
                                   ELSE Some(Object(m.return_type))]_vars

\* C28: the literal form of every operator returns what the two-Value form
\* returns on the literal as a Number: &v OP n = &v OP &Number(n), for every
\* Value v and integer n -- in particular Invalid, and no fault, for div and
\* rem by the literal 0.
C28_LiteralFormsAgree ==
    (expr.kind = "op" /\ expr.form = "lit" /\ applied.some) =>
        applied.v = ValueOp(expr.op, expr.lhs, Number(expr.rhs))

\* The discipline of a tick.  When it starts, the branches with a task are
\* exactly the unfinished ones.  A task runs for a branch that is
\* unfinished and has had no task in this tick, and changes no other
\* branch.  The join moves no branch, rewrites no register and no
\* last_instruction, and the branches it appends have had no task: they sit
\* unfinished at the pc they were queued with.
OneTaskEach ==
    /\ (phase # "tick" /\ phase' = "tick") =>
          /\ todo' = {k \in DOMAIN branches' : ~branches'[k].finished}
          /\ stepped' = EmptyMap
    /\ \A k \in DOMAIN branches :
          TaskStep(k) =>
              /\ ~branches[k].finished
              /\ k \notin DOMAIN stepped
              /\ DOMAIN stepped' = DOMAIN stepped \cup {k}
              /\ todo' = todo \ {k}
              /\ \A j \in DOMAIN branches \ {k} : branches'[j] = branches[j]
    /\ JoinStep =>
          /\ \A k \in DOMAIN branches :
                /\ branches'[k].pc = branches[k].pc
                /\ branches'[k].finished = branches[k].finished
                /\ branches'[k].state.registers = branches[k].state.registers
                /\ branches'[k].state.last_instruction
                      = branches[k].state.last_instruction
          /\ \A j \in DOMAIN branches' \ DOMAIN branches :
                /\ j \notin DOMAIN stepped
                /\ \E a \in DOMAIN branches_to_add :
                      /\ branches'[j].pc = branches_to_add[a][2].pc
                      /\ branches'[j].state.registers
                            = branches_to_add[a][2].state.registers
                      /\ branches'[j].finished
                            = branches_to_add[a][2].finished

\* the task of branch k executed the instruction at the pc of the branch
ExecutedOne(k) ==
    /\ get_instruction(branches[k].pc).some
    /\ stepped'[k] \notin {"stuck", "missing"}
    /\ branches'[k].previous_pc = branches[k].pc

\* C29 as stated: one tick steps every branch that is unfinished when the
\* tick starts by exactly one instruction and steps no other branch; forked
\* branches execute their first instruction in the following tick, and
\* finished branches execute nothing.
C29_OneInstructionPerTick ==
    [][/\ OneTaskEach
       /\ \A k \in DOMAIN branches : TaskStep(k) => ExecutedOne(k)]_vars

\* C29 amended: one tick runs exactly one task for every branch that is
\* unfinished when the tick starts and none for any other branch; the task
\* executes exactly one instruction, unless the branch has no instruction
\* at its pc or has pc # 0 and previous_pc = pc: then it executes nothing
\* and marks the branch finished.
C29_OneTaskPerTick ==
    [][/\ OneTaskEach
       /\ \A k \in DOMAIN branches :
             TaskStep(k) =>
                 IF Anomalous(branches[k])
                 THEN /\ stepped'[k] \in {"stuck", "missing"}
                      /\ branches'[k].finished
                      /\ branches'[k].pc = branches[k].pc
                      /\ branches'[k].state = branches[k].state
                 ELSE ExecutedOne(k)]_vars

\* a tick of AnomalyMethod in which only the root had a task: the two
\* forked branches were finished by earlier ticks
C29_Witness ==
    /\ method = 15 /\ seed = 0
    /\ BetweenTicks
    /\ Len(branches) = 3
    /\ branches[2].finished /\ branches[3].finished
    /\ ~branches[1].finished
    /\ DOMAIN stepped = {1}
    /\ stepped[1] = "goto"

\* the ids and state ids in use in the branch list bs
IdsOf(bs) ==
    {bs[k].id : k \in DOMAIN bs} \cup {bs[k].state.id : k \in DOMAIN bs}

\* C30: every fork admitted at the end of a tick is appended to the branch
\* list with an id and a state.id that no branch of the list has as id or
\* state.id (no other fork of the tick either), with parent_id equal to the
\* id of the branch whose test or switch queued it, and the pair (new id,
\* offset of that test or switch) is appended to the revisit log; the taints
\* queued in the tick are applied to the existing branches before the forks
\* are admitted, so a fork keeps the tainted flag it was queued with.
C30_ForkAdmission ==
    [][JoinStep =>
         LET n == Len(branches)
             new == {j \in DOMAIN branches' : j > n}
         IN  /\ \A k \in DOMAIN branches : branches'[k].id = branches[k].id
             /\ new # {} => Len(branches') = n + Len(branches_to_add)
             /\ Len(already_branched')
                   = Len(tick_already_branched) + Cardinality(new)
             /\ SubSeq(already_branched', 1, Len(tick_already_branched))
                   = tick_already_branched
             /\ \A j \in new :
                   LET f == branches'[j]
                       q == branches_to_add[j - n]
                   IN  /\ f.id \notin IdsOf(branches)
                       /\ f.state.id \notin IdsOf(branches)
                       /\ f.id # f.state.id
                       /\ \A i \in new \ {j} :
                             /\ f.id \notin {branches'[i].id, branches'[i].state.id}
                             /\ f.state.id # branches'[i].state.id
                       /\ \E k \in DOMAIN branches :
                             /\ f.parent_id = Some(branches[k].id)
                             /\ k \in DOMAIN stepped
                             /\ stepped[k] \in {"symbolic", "switch"}
                             /\ branches[k].previous_pc = q[1]
                       /\ already_branched'[Len(tick_already_branched) + j - n]
                             = <<f.id, q[1]>>
                       /\ f.pc = q[2].pc
                       /\ f.state = [q[2].state EXCEPT !.id = f.state.id]
             /\ \A t \in DOMAIN branches_to_taint :
                   \A k \in DOMAIN branches :
                       branches[k].id = branches_to_taint[t]
                           => branches'[k].state.tainted]_vars

\* ForkTaintMethod without the conservative flag has run to its end: the
\* unsupported opcode tainted the root and its child, and the fork the
\* child queued in that very tick was admitted untainted
C30_Witness ==
    /\ method = 18 /\ seed = 0 /\ ~conservative
    /\ BetweenTicks /\ AllFinished
    /\ Len(branches) = 3
    /\ branches[1].state.tainted
    /\ branches[2].parent_id = Some(branches[1].id)
    /\ branches[2].state.tainted
    /\ branches[3].parent_id = Some(branches[2].id)
    /\ ~branches[3].state.tainted
    /\ already_branched[Len(already_branched)] = <<branches[3].id, 6>>

\* whether branch k executed a Switch with a SwitchData payload whose site
\* the revisit log already held, so that none of its targets was queued
SwitchedLogged(k) ==
    LET b == branches[k]
        got == get_instruction(b.previous_pc)
        data == get_instruction(b.previous_pc + got.v.ins.table_offset)
    IN  /\ Executed(k)
        /\ stepped[k] = "switch"
        /\ got.some
        /\ got.v.ins.op = "Switch"
        /\ data.some
        /\ data.v.ins.op = "SwitchData"
        /\ data.v.ins.targets # << >>
        /\ SiteLogged(already_branched, b.previous_pc)

\* C34: whenever a fork is suppressed because of the revisit log (at a Test
\* or TestZero logged for the branch, or at a Switch whose site is logged by
\* any branch), the suppressing branch is tainted by the end of that tick.
C34_SuppressedForkTaints ==
    [][JoinStep =>
         \A k \in DOMAIN branches :
             (RevisitedTest(k) \/ SwitchedLogged(k))
                 => branches'[k].state.tainted]_vars

\* C39: the branch list never holds more than FORK_CAP branches, finished
\* or not.
C39_BranchListCapped == Len(branches) <= FORK_CAP

\* the branches without a parent
Roots(bs) == {k \in DOMAIN bs : ~bs[k].parent_id.some}

\* C33: across construction, queries and reset the branch list holds at most
\* one branch without a parent, every other branch is the child of a branch
\* of the list, and a query never starts its first tick without an
\* unfinished branch at offset 0.
C33_SingleSeed ==
    /\ Cardinality(Roots(branches)) <= 1
    /\ \A k \in DOMAIN branches \ Roots(branches) :
          \E j \in DOMAIN branches : branches[k].parent_id = Some(branches[j].id)
    /\ (call # "none" /\ iterations = 0 /\ phase = "tick" /\ stepped = EmptyMap)
          => \E k \in todo : branches[k].pc = 0

\* the task of branch k, which executes an unsupported opcode, leaves every
\* register of k Empty, queues the taint of k and changes no other branch
NotImplTask(k) ==
    /\ \A r \in DOMAIN branches'[k].state.registers :
          branches'[k].state.registers[r] = Empty
    /\ branches_to_taint' = Append(branches_to_taint, branches[k].id)
    /\ \A j \in DOMAIN branches \ {k} : branches'[j] = branches[j]

\* the branches of bs that are branch k of the list or descend from it
\* through parent_id
Below(k, bs) ==
    {c \in DOMAIN bs : c = k \/ InChain(branches[k].id, bs[c], bs)}

ForkSite(bid, log) ==
    IF \E e \in DOMAIN log : log[e][1] = bid
    THEN log[CHOOSE e \in DOMAIN log :
                /\ log[e][1] = bid
                /\ \A d \in DOMAIN log : log[d][1] = bid => e <= d][2]
    ELSE -1

\* the children of branch k in the list bs that were forked at offset P
ChildrenAt(k, P, bs, log) ==
    {j \in DOMAIN bs : /\ bs[j].parent_id = Some(bs[k].id)
                       /\ ForkSite(bs[j].id, log) = P}

\* the offsets of the Test / TestZero instructions of the method
TestSites == {P \in DOMAIN Insns : Insns[P].ins.op \in {"Test", "TestZero"}}

\* the test sites branch k logged itself, i.e. visited for the first time
OwnSites(k, bs, log) ==
    {P \in TestSites :
        \E e \in DOMAIN log :
            /\ log[e] = <<bs[k].id, P>>
            /\ bs[k].parent_id.some =>
                  \E d \in DOMAIN log : d < e /\ log[d][1] = bs[k].id}

\* the number of targets of the switch branch k was finished at, if any
SwitchTargets(k, bs) ==
    LET got == get_instruction(bs[k].pc)
        data == get_instruction(bs[k].pc + got.v.ins.table_offset)
    IN  IF bs[k].finished /\ got.some /\ got.v.ins.op = "Switch"
           /\ data.some /\ data.v.ins.op = "SwitchData"
        THEN Len(data.v.ins.targets)
        ELSE 0

\* C36: a branch queues at most one fork at any Test / TestZero offset, a
\* branch forked at offset P never forks at P itself, and the number of
\* children of a branch is at most the number of test sites it visited plus
\* the targets of its switch.
C36_OneForkPerSite ==
    /\ [](BetweenTicks =>
            \A k \in DOMAIN branches :
                /\ \A P \in TestSites :
                      Cardinality(ChildrenAt(k, P, branches, already_branched)) <= 1
                /\ (/\ branches[k].parent_id.some
                    /\ ForkSite(branches[k].id, already_branched) \in TestSites) =>
                      ChildrenAt(k, ForkSite(branches[k].id, already_branched),
                                 branches, already_branched) = {}
                /\ Cardinality({j \in DOMAIN branches :
                                   branches[j].parent_id = Some(branches[k].id)})
                      <= Cardinality(OwnSites(k, branches, already_branched))
                         + SwitchTargets(k, branches))
    /\ [][\A k \in DOMAIN branches :
             (Executes(k, {"Test", "TestZero"})
              /\ branches_to_add' # branches_to_add) =>
                 /\ Len(branches_to_add') = Len(branches_to_add) + 1
                 /\ ~Logged(tick_already_branched, branches[k].id, branches[k].pc)
                 /\ \A a \in DOMAIN branches_to_add :
                       ~(/\ branches_to_add[a][1] = branches[k].pc
                         /\ branches_to_add[a][2].parent_id = Some(branches[k].id))
                 /\ ChildrenAt(k, branches[k].pc, branches,
                               tick_already_branched) = {}]_vars

\* the child forked at the test of BackEdgeMethod has come back to that
\* test, which was treated as a revisit: the root has its one child, the
\* child has none
C36_Witness ==
    /\ method = 9 /\ seed = 0
    /\ BetweenTicks
    /\ Len(branches) = 2
    /\ ChildrenAt(1, 2, branches, already_branched) = {2}
    /\ stepped = (2 :> "revisit")
    /\ branches[2].previous_pc = 2
    /\ ForkSite(branches[2].id, already_branched) = 2
    /\ OwnSites(2, branches, already_branched) = {}
    /\ OwnSites(1, branches, already_branched) = {2}

\* the elements of the sequence s
Elements(s) == {s[i] : i \in DOMAIN s}

\* the ids of the tainted branches of bs
TaintedIds(bs) == {bs[i].id : i \in {t \in DOMAIN bs : bs[t].state.tainted}}

\* what the tick leaves when, from the current point of the tick, the task
\* of branch k takes the shared locks before the task of branch j and the
\* join follows: the tainted branches after the drain, the revisit log and
\* the queued forks, as sets
InOrder(k, j) ==
    LET first == BranchTask(branches[k], tick_already_branched, conservative)
        second == BranchTask(branches[j], first.log, conservative)
        bs == [branches EXCEPT ![k] = first.b, ![j] = second.b]
    IN  [tainted |->
            TaintedIds(DrainTaints(bs, branches_to_taint \o first.taint
                                                         \o second.taint)),
         log |-> Elements(second.log),
         add |-> Elements(branches_to_add \o first.add \o second.add)]

\* the same with the task of branch j first
Swapped(k, j) ==
    LET first == BranchTask(branches[j], tick_already_branched, conservative)
        second == BranchTask(branches[k], first.log, conservative)
        bs == [branches EXCEPT ![j] = first.b, ![k] = second.b]
    IN  [tainted |->
            TaintedIds(DrainTaints(bs, branches_to_taint \o first.taint
                                                         \o second.taint)),
         log |-> Elements(second.log),
         add |-> Elements(branches_to_add \o first.add \o second.add)]

\* C38: the outcome of a tick does not depend on the order in which its
\* tasks take the shared locks: any two tasks still to run that read or
\* append to the revisit log leave the same set of tainted branches, the
\* same revisit log (as a set) and the same set of queued forks in either
\* order.
C38_TickDeterminism ==
    phase = "tick" =>
        \A k, j \in {t \in todo : Sensitive(t)} :
            k # j => InOrder(k, j) = Swapped(k, j)

\* C37: on a method whose only cycle is a loop with a Test / TestZero header
\* that leaves the loop on its taken edge, and whose other paths return,
\* every branch is eventually finished when ticks keep being run, whether
\* the loop condition is symbolic (LoopMethod) or concrete
\* (ConcreteLoopMethod).
C37_LoopsQuiesce ==
    (branches # << >> /\ seed = 0) ~> (BetweenTicks /\ AllFinished)

\* the loop of a query is at its exit tests, having counted more than
\* EXPLOSION_ITERATIONS iterations with more than EXPLOSION_BRANCHES branches
Exploded ==
    /\ phase = "collect"
    /\ Len(branches) > EXPLOSION_BRANCHES
    /\ iterations > EXPLOSION_ITERATIONS

\* C32: get_all_branch_decisions returns as soon as, after a tick, the
\* branch count is greater than 300 and the iteration counter is greater
\* than 150, without waiting for the MAX_ITERATIONS cap.
C32_DecisionsShortCircuit ==
    [][(call = "decisions" /\ Exploded) => call' = "none"]_vars

\* the branches whose task queued a fork in the tick being joined
Queuing ==
    {k \in DOMAIN branches :
        \E a \in DOMAIN branches_to_add :
            branches_to_add[a][2].parent_id = Some(branches[k].id)}

\* the join admits none of the queued forks: the branch list keeps its
\* length and the revisit log is the one the tasks left
NoneAdmitted ==
    /\ Len(branches') = Len(branches)
    /\ already_branched' = tick_already_branched

\* branch k goes on at the instruction after the one it executed
OnFallThrough(k) ==
    /\ ~branches'[k].finished
    /\ branches'[k].pc
          = branches[k].previous_pc + (Insns[branches[k].previous_pc].size \div 2)

\* C31 as stated: if more than 1000 branches are unfinished at the end of a
\* tick, none of the forks queued in that tick is added to the branch list
\* or to the revisit log, and the branches that queued them continue on
\* their fall-through path.
C31_ForkCapOnLive ==
    [][(JoinStep /\ Cardinality(Unfinished(branches)) > FORK_CAP) =>
          /\ NoneAdmitted
          /\ \A k \in Queuing : OnFallThrough(k)]_vars

\* C31 amended: the forks queued in a tick are dropped if the branch list
\* holds FORK_CAP or more branches, finished ones included, at the end of
\* the tick, and admitted all together otherwise; when they are dropped, a
\* branch that queued its fork at a Test or TestZero continues on its
\* fall-through path and a branch that queued forks at a Switch is finished.
C31_ForkCapOnList ==
    [][JoinStep =>
          IF Len(branches) >= FORK_CAP
          THEN /\ NoneAdmitted
               /\ \A k \in Queuing :
                     IF stepped[k] = "switch"
                     THEN branches'[k].finished
                     ELSE OnFallThrough(k)
          ELSE /\ Len(branches') = Len(branches) + Len(branches_to_add)
               /\ Len(already_branched')
                     = Len(tick_already_branched) + Len(branches_to_add)]_vars

\* CapMethod after its fourth tick: 1001 of the 1003 branches are
\* unfinished; one of them queued a fork at its test and goes on at the
\* fall-through, another one queued two at its switch and is finished; none
\* of the three forks is in the list or in the log
C31_Witness ==
    /\ method = 20 /\ seed = 0
    /\ BetweenTicks
    /\ Len(branches) = FORK_CAP + 3
    /\ Cardinality(Unfinished(branches)) = FORK_CAP + 1
    /\ Len(branches_to_add) = 3
    /\ 4 \in DOMAIN stepped /\ stepped[4] = "symbolic"
    /\ ~branches[4].finished /\ branches[4].pc = 13
    /\ 5 \in DOMAIN stepped /\ stepped[5] = "switch"
    /\ branches[5].finished
    /\ Len(already_branched) = FORK_CAP + 5
    /\ already_branched[Len(already_branched)] = <<branches[4].id, 11>>

\* C40: executing the same FunctionCall twice against a VM that returns the
\* same value both times yields the same lifted Value both times, also when
\* the result hint of the call is Object{ty = "Z"} and the VM returns an
\* integer.
C40_ConcretizationRepeatable ==
    (/\ expr.kind = "execute"
     /\ expr.li.kind = "FunctionCall"
     /\ outcome.some /\ outcome.v.ok
     /\ rerun.some)
        => /\ rerun.v.ok
           /\ rerun.v.v = outcome.v.v

====
